---- MODULE Spec2Model ----
(***************************************************************************)
(* Hackaplan backend: the lookup-job orchestrator (job_orchestrator.py),   *)
(* the lookup endpoints that drive it (main.py) and the durable store it   *)
(* writes (db.py), as one state machine.                                   *)
(*                                                                         *)
(* Atomicity follows asyncio: a coroutine runs until it awaits something   *)
(* that can suspend.  The database calls are synchronous, the subscribers  *)
(* lock is never held across an await and the queue is unbounded, so the   *)
(* suspension points are queue.get(), websocket.send_json(), and the crawl *)
(* awaited under asyncio.wait_for.                                         *)
(*                                                                         *)
(* The crawl itself (scraping/service.py) is a second state machine, in    *)
(* the variable crawl: the main coroutine of scrape_hackathon and the      *)
(* deep-fetch tasks it creates.  Its suspension points are the fetches,    *)
(* the semaphore, asyncio.wait and asyncio.gather; progress_callback is    *)
(* taken with no websocket subscribed, where it returns without suspending.*)
(*                                                                         *)
(* Three more machines stand beside them, each in a variable of its own:   *)
(* fetch, one call of RetryHttpClient (scraping/http_client.py), suspended *)
(* in client.get or asyncio.sleep; norm, one call of                       *)
(* normalize_hackathon_url (scraping/url_utils.py) on a URL given as a     *)
(* sequence of tokens; snap, one call of build_snapshot_from_targets       *)
(* (snapshot_builder.py) and the shard files it leaves.                    *)
(***************************************************************************)
EXTENDS Integers, Sequences, FiniteSets, TLC

\* ------------------------------------------------------------- bounds
\* The number of POST /lookups requests in a run of Spec, SpecCache, SpecFail
MaxSubmits == 4
MaxSubmitsCache == 3
MaxSubmitsFail == 3
MaxSubmitsLifecycle == 2
MaxSubmitsLive == 3
MaxClock == 2
MaxTtl == 1
MaxProgress == 2
MaxSockets == 2
\* The gallery pages, the project urls and the deep-fetch permits of a crawl
MaxPages == 2
MaxProjects == 2
MaxConcurrency == 2
\* The gallery pages of a crawl whose pages carry at most one entry each
MaxBadgePages == 3
\* The attempts of a fetch (settings.max_retries) and the backoff base, in
\* units of the smallest base configured
MaxRetries == 3
MaxBackoffBase == 2
\* The tokens of a raw URL after its host
MaxTail == 3
\* The targets of a snapshot build and its scrape_concurrency
MaxTargets == 3
MaxScrapeConcurrency == 2

\* A NULL timestamp column (started_at / finished_at TEXT, nullable)
NullTime == -1

NullCode == "null"

Sockets == 1..MaxSockets
Publishers == {"main", "task"}

VARIABLES
  jobs,         \* table lookup_jobs: job id (1..Len) -> row
  results,      \* table lookup_results: the job ids that have a row
  events,       \* table lookup_progress_events: job id -> its rows in id order
  queue,        \* JobOrchestrator._queue (meaningful while the worker exists)
  worker,       \* JobOrchestrator._worker_task and the position of its coroutine
  bc,           \* per publisher, the _broadcast call it is suspended in
  subscribers,  \* JobOrchestrator._subscribers, as <<job id, socket>> pairs
  sock,         \* per websocket connection: handler position and frames received
  clock,        \* the wall clock read by utcnow_iso()
  ttl,          \* settings.lookup_result_cache_ttl_seconds
  nsub,         \* the number of POST /lookups requests answered so far
  resp,         \* the response of the POST /lookups answered by this step, if any
  crawl,        \* the frame of one DevpostScraper.scrape_hackathon call and its tasks
  fetch,        \* the frame of one RetryHttpClient.fetch_text / fetch_json call
  norm,         \* a raw URL and what normalize_hackathon_url makes of it
  snap          \* the frame of one build_snapshot_from_targets call and its output directory

vars == <<jobs, results, events, queue, worker, bc, subscribers, sock, clock, ttl, nsub, resp, crawl, fetch, norm, snap>>

\* ------------------------------------------------------------- URLs
\* A URL is a sequence of tokens, each standing for a piece of its text:
\* the schemes "https://" and "http://"; the host labels "a", "b" and "A"
\* ("a" in upper case); the suffix ".devpost.com"; the whole hosts
\* "devpost.com", "evildevpost.com" and "evil.com"; " " (whitespace); "/";
\* a path segment "p"; a query "?q"; a fragment "#f".  A raw URL carries a
\* scheme at its start only.
Schemes == {"https://", "http://"}

\* str.lstrip() / str.rstrip(ch)
RECURSIVE lstrip(_)
lstrip(u) == IF u # <<>> /\ Head(u) = " " THEN lstrip(Tail(u)) ELSE u

RECURSIVE rstrip(_, _)
rstrip(u, ch) ==
  IF u # <<>> /\ u[Len(u)] = ch THEN rstrip(SubSeq(u, 1, Len(u) - 1), ch) ELSE u

\* raw_url.strip()
strip(u) == rstrip(lstrip(u), " ")

\* str.lower()
lower(u) == [i \in 1..Len(u) |-> IF u[i] = "A" THEN "a" ELSE u[i]]

\* host.endswith("devpost.com")
EndsWithDevpost(host) ==
  host # <<>> /\ host[Len(host)] \in {".devpost.com", "devpost.com", "evildevpost.com"}

\* The index of the first token of u from i on that is in S, Len(u) + 1 if none.
RECURSIVE find(_, _, _)
find(u, S, i) == IF i > Len(u) \/ u[i] \in S THEN i ELSE find(u, S, i + 1)

\* urllib.parse.urlparse on scheme://rest: the netloc ends at the first of
\* "/", "?" and "#", the path at the first of "?" and "#".
urlparse(candidate) ==
  LET rest == Tail(candidate)
      n == find(rest, {"/", "?q", "#f"}, 1)
      q == find(rest, {"?q", "#f"}, 1)
  IN [scheme |-> Head(candidate), netloc |-> SubSeq(rest, 1, n - 1), path |-> SubSeq(rest, n, q - 1)]

\* normalize_hackathon_url raises ValidationAppError.
Invalid == <<>>

\* normalize_hackathon_url: strip, default the scheme, check the host,
\* drop a trailing slash, params, query and fragment.
normalize_hackathon_url(raw) ==
  LET stripped == strip(raw) IN
  IF stripped = <<>> THEN Invalid
  ELSE LET candidate == IF Head(stripped) \in Schemes THEN stripped ELSE <<"https://">> \o stripped
           parsed == urlparse(candidate)
           cleaned_path == IF parsed.path \in {<<>>, <<"/">>} THEN <<>> ELSE rstrip(parsed.path, "/")
       IN IF parsed.netloc = <<>> THEN Invalid
          ELSE IF ~EndsWithDevpost(lower(parsed.netloc)) THEN Invalid
          ELSE <<parsed.scheme>> \o parsed.netloc \o cleaned_path

\* The raw URLs submitted in the orchestrator's specification.
SubmitUrls ==
  { <<"a", ".devpost.com">>,
    <<"https://", "a", ".devpost.com", "/", "?q">>,
    <<"https://", "b", ".devpost.com">>,
    <<"https://", "evil.com">> }

\* normalize_hackathon_url on the submitted URLs, tabulated.
Normalized == [raw \in SubmitUrls |-> normalize_hackathon_url(raw)]

\* The raw URLs normalized in SpecUrl: optional whitespace, an optional
\* scheme, a host or none, and up to MaxTail further tokens.
Hosts ==
  {<<>>, <<"a", ".devpost.com">>, <<"A", ".devpost.com">>, <<"devpost.com">>,
   <<"evildevpost.com">>, <<"evil.com">>}

Tails == UNION {[1..n -> {"/", "p", " ", "?q", "#f"}] : n \in 0..MaxTail}

RawUrls ==
  {lead \o scheme \o host \o tail :
     lead \in {<<>>, <<" ">>}, scheme \in {<<>>, <<"https://">>, <<"http://">>},
     host \in Hosts, tail \in Tails}

NoNorm == [pc |-> "idle"]

\* ------------------------------------------------------------- errors
\* How a crawl awaited under wait_for can end.
TypedFailures == {"validation_error", "network_error", "blocked_error", "timeout_error", "parse_error"}
Outcomes == {"result", "deadline", "exception"} \cup TypedFailures

\* _process_lookup without its last clause, "except Exception".
CatchClause_NoFallback(o) ==
  IF o = "result" THEN "none"
  ELSE IF o = "deadline" THEN "TimeoutError"
  ELSE IF o \in TypedFailures THEN "AppError"
  ELSE "none"

\* The except clause of _process_lookup that catches an outcome.
CatchClause(o) ==
  IF o = "result" THEN "none"
  ELSE IF o = "deadline" THEN "TimeoutError"
  ELSE IF o \in TypedFailures THEN "AppError"
  ELSE "Exception"

\* _process_lookup with the deadline handled by the fallback clause.
FailureCode_DeadlineAsParse(o) ==
  IF CatchClause(o) = "AppError" THEN o ELSE "parse_error"

\* The error code _process_lookup persists and publishes for a failed outcome.
FailureCode(o) ==
  IF CatchClause(o) = "TimeoutError" THEN "timeout_error"
  ELSE IF CatchClause(o) = "AppError" THEN o
  ELSE "parse_error"

\* ------------------------------------------------------------- store
Active == {"queued", "started"}
Terminal == {"completed", "failed"}

NewJob(url) ==
  [url |-> url, status |-> "queued", created_at |-> clock,
   started_at |-> NullTime, finished_at |-> NullTime, error_code |-> NullCode]

\* Database.set_lookup_started: UPDATE ... SET status, started_at WHERE id
set_lookup_started(j) ==
  [jobs EXCEPT ![j].status = "started", ![j].started_at = clock]

\* Database.set_lookup_completed
set_lookup_completed(j) ==
  [jobs EXCEPT ![j].status = "completed", ![j].finished_at = clock, ![j].error_code = NullCode]

\* Database.set_lookup_failed
set_lookup_failed(j, code) ==
  [jobs EXCEPT ![j].status = "failed", ![j].finished_at = clock, ![j].error_code = code]

Event(type, code) == [type |-> type, code |-> code]

\* Database.insert_progress_event: one more row, with the next id
insert_progress_event(table, j, type, code) ==
  [table EXCEPT ![j] = Append(@, Event(type, code))]

\* Database.get_latest_active_lookup_for_url: the rows ORDER BY created_at ASC
\* LIMIT 1 can return (rows with equal created_at come in any order).
get_latest_active_lookup_for_url(url) ==
  LET act == {j \in 1..Len(jobs) : jobs[j].url = url /\ jobs[j].status \in Active}
  IN {j \in act : \A k \in act : jobs[j].created_at <= jobs[k].created_at}

\* The query without "AND jobs.finished_at >= ?".
get_recent_completed_any_age(url, finished_since) ==
  LET hit == {j \in 1..Len(jobs) : /\ j \in results
                                    /\ jobs[j].url = url
                                    /\ jobs[j].status = "completed"
                                    /\ jobs[j].finished_at # NullTime}
  IN {j \in hit : \A k \in hit : jobs[j].finished_at >= jobs[k].finished_at}

\* Database.get_recent_completed_lookup_for_url: the rows ORDER BY finished_at
\* DESC LIMIT 1 can return.
get_recent_completed_lookup_for_url(url, finished_since) ==
  LET hit == {j \in 1..Len(jobs) : /\ j \in results
                                    /\ jobs[j].url = url
                                    /\ jobs[j].status = "completed"
                                    /\ jobs[j].finished_at # NullTime
                                    /\ jobs[j].finished_at >= finished_since}
  IN {j \in hit : \A k \in hit : jobs[j].finished_at >= jobs[k].finished_at}

\* time_utils.utc_seconds_ago_iso
utc_seconds_ago(seconds) == clock - seconds

\* ------------------------------------------------------------- broadcast
\* The frame of a _broadcast call: the event, the copy of the subscriber set
\* (sockets), the part of it not yet sent to (todo) and the stale list.
NoBroadcast == [job |-> 0, ev |-> 0, sockets |-> <<>>, todo |-> <<>>, stale |-> {}]

SocketsOf(j) == {w \in Sockets : <<j, w>> \in subscribers}

\* list(set): the orders in which a set can be iterated
Orders(S) ==
  {s \in [1..Cardinality(S) -> S] : \A a, b \in 1..Cardinality(S) : a # b => s[a] # s[b]}

\* websocket.send_json(event) raises on a connection that is closed.
SendFails(sk, w, j) == ~(sk[w].state \in {"replay", "live"} /\ sk[w].job = j)

\* websocket.send_json(event) on connection w: the frame is handed to the
\* connection when the call is made; a connection that is gone takes nothing.
SendTo(sk, w, j, ev) ==
  IF sk[w].state \in {"replay", "live"} /\ sk[w].job = j
  THEN [sk EXCEPT ![w].received = Append(@, ev)]
  ELSE sk

\* _broadcast once its first send_json is called on the copy order: the
\* frame it is suspended in, or NoBroadcast when nothing is left to do.
FirstSend(j, ev, order) ==
  LET st == IF SendFails(sock, order[1], j) THEN {order[1]} ELSE {} IN
  IF Len(order) = 1 /\ st = {}
  THEN NoBroadcast
  ELSE [job |-> j, ev |-> ev, sockets |-> order, todo |-> Tail(order), stale |-> st]

\* A publish_event that stores the event only once its first delivery was made.
PublishEffect_StoresAfterDelivery(p, j, type, code, order) ==
  /\ events' = IF order # <<>> /\ SendFails(sock, order[1], j)
                THEN events
                ELSE insert_progress_event(events, j, type, code)
  /\ IF order = <<>>
     THEN /\ sock' = sock
          /\ bc' = bc
     ELSE /\ sock' = SendTo(sock, order[1], j, Len(events[j]) + 1)
          /\ bc' = [bc EXCEPT ![p] = FirstSend(j, Len(events[j]) + 1, order)]

\* JobOrchestrator.publish_event by publisher p, up to its first suspension:
\* the row is inserted, the subscriber set is copied under the lock, and the
\* first send_json is called.  order is the iteration order of the copy.
PublishEffect(p, j, type, code, order) ==
  /\ events' = insert_progress_event(events, j, type, code)
  /\ IF order = <<>>
     THEN /\ sock' = sock
          /\ bc' = bc
     ELSE /\ sock' = SendTo(sock, order[1], j, Len(events[j]) + 1)
          /\ bc' = [bc EXCEPT ![p] = FirstSend(j, Len(events[j]) + 1, order)]

\* ------------------------------------------------------------- crawl
\* project_urls are 1..MaxProjects, gallery pages 1..MaxPages (0 is None).
Projects == 1..MaxProjects
Pages == 1..MaxPages

\* What a failed fetch of the landing page or of a gallery page raises
\* (RetryHttpClient._fetch_with_retries), and what a deep fetch raises:
\* 403/429, or a project page with no title (parse_project_page).
GalleryFailures == {"network_error", "blocked_error", "timeout_error"}
TaskFailures == {"blocked_error", "parse_error"}

\* What a fetched project page carries: a prize record of the target
\* hackathon (_parse_prizes after its same_hackathon filter), or none.
ProjectPages == {"prize", "noprize"}

\* No crawl is running (the orchestrator's specifications).
NoCrawl == [pc |-> "idle"]

\* scrape_hackathon up to its first await, the fetch of the landing page.
NewCrawl(concurrency) ==
  [pc |-> "landing",
   project_fetch_concurrency |-> concurrency,
   should_run_deep_fallback |-> FALSE,
   page_url |-> 0,
   visited_pages |-> {},
   scanned_pages |-> 0,
   all_candidates |-> <<>>,
   found_gallery_winners |-> FALSE,
   winners |-> <<>>,
   fetch_semaphore |-> concurrency,
   tasks |-> <<>>,
   pending_scrape_tasks |-> {},
   scheduled_project_urls |-> {},
   total_candidates_scheduled |-> 0,
   progress |-> <<>>,
   raised |-> "none",
   \* history: the badge-tagged urls parsed, the order in which tasks
   \* completed, and every failure that occurred in the crawl
   badge_urls |-> {},
   completed |-> <<>>,
   trouble |-> {}]

\* progress_callback(type, payload), with no websocket subscribed
Emit(c, type, arg) ==
  [c EXCEPT !.progress = Append(@, [type |-> type, arg |-> arg])]

\* asyncio.create_task(scrape_candidate_with_limit(candidate, ...))
NewTask(u, confirm) ==
  [url |-> u, requires_prize_confirmation |-> confirm, state |-> "created",
   holds |-> FALSE, page |-> "none", result |-> "none", prizes |-> "none"]

\* schedule_candidate without its scheduled_project_urls check.
schedule_candidate_NoDedup(c, u, confirm) ==
  [c EXCEPT !.scheduled_project_urls = @ \cup {u},
            !.total_candidates_scheduled = @ + 1,
            !.tasks = Append(@, NewTask(u, confirm)),
            !.pending_scrape_tasks = @ \cup {Len(c.tasks) + 1}]

\* schedule_candidate: a url already scheduled is skipped.
schedule_candidate(c, u, confirm) ==
  IF u \in c.scheduled_project_urls
  THEN c
  ELSE [c EXCEPT !.scheduled_project_urls = @ \cup {u},
                 !.total_candidates_scheduled = @ + 1,
                 !.tasks = Append(@, NewTask(u, confirm)),
                 !.pending_scrape_tasks = @ \cup {Len(c.tasks) + 1}]

\* The elements of a set of numbers, ascending (the entries of a page in
\* document order).
RECURSIVE Ascending(_)
Ascending(S) ==
  IF S = {} THEN <<>>
  ELSE LET m == CHOOSE x \in S : \A y \in S : x <= y
       IN <<m>> \o Ascending(S \ {m})

\* scrape_hackathon, "for entry in parsed_page.winner_entries"
RECURSIVE BadgePass(_, _)
BadgePass(c, entries) ==
  IF entries = <<>> THEN c
  ELSE LET u == Head(entries)
           c1 == [c EXCEPT !.found_gallery_winners = TRUE]
           c2 == Emit(c1, "winner_project_found", u)
       IN BadgePass(schedule_candidate(c2, u, FALSE), Tail(entries))

\* scrape_hackathon, the loop that builds unique_all_candidates
RECURSIVE unique_all_candidates(_, _)
unique_all_candidates(candidates, seen) ==
  IF candidates = <<>> THEN <<>>
  ELSE IF Head(candidates) \in seen
       THEN unique_all_candidates(Tail(candidates), seen)
       ELSE <<Head(candidates)>> \o
            unique_all_candidates(Tail(candidates), seen \cup {Head(candidates)})

\* scrape_hackathon, "for candidate in unique_all_candidates"
RECURSIVE FallbackPass(_, _)
FallbackPass(c, candidates) ==
  IF candidates = <<>> THEN c
  ELSE FallbackPass(schedule_candidate(c, Head(candidates), TRUE), Tail(candidates))

\* {task for task in pending_scrape_tasks if task.done()}
DoneTasks(c) == {i \in c.pending_scrape_tasks : c.tasks[i].state = "done"}

\* A payload whose total is the number of tasks still pending.
winner_project_scraped_TotalIsPending(c, url) ==
  [type |-> "winner_project_scraped", arg |-> url, index |-> Len(c.winners),
   total |-> Cardinality(c.pending_scrape_tasks)]

\* The winner_project_scraped event of drain_completed_scrapes, built after
\* winners.append(project): index is len(winners), total is
\* max(total_candidates_scheduled, winner_index).
winner_project_scraped(c, url) ==
  [type |-> "winner_project_scraped", arg |-> url, index |-> Len(c.winners),
   total |-> IF c.total_candidates_scheduled > Len(c.winners)
             THEN c.total_candidates_scheduled ELSE Len(c.winners)]

\* A drain that treats a failed task like a filtered one.
RECURSIVE drain_completed_scrapes_SwallowsErrors(_, _)
drain_completed_scrapes_SwallowsErrors(c, order) ==
  IF order = <<>> THEN c
  ELSE LET i == Head(order)
           t == c.tasks[i]
           c1 == [c EXCEPT !.pending_scrape_tasks = @ \ {i}]
       IN IF t.result \in TaskFailures \/ t.result = "None"
          THEN drain_completed_scrapes_SwallowsErrors(c1, Tail(order))
          ELSE LET c2 == [c1 EXCEPT !.winners = Append(@, [url |-> t.url, prizes |-> t.prizes])]
               IN drain_completed_scrapes_SwallowsErrors(
                    [c2 EXCEPT !.progress = Append(@, winner_project_scraped(c2, t.url))],
                    Tail(order))

\* drain_completed_scrapes, "for task in done", in the iteration order of
\* the set: task.result() re-raises a failed task's exception.
RECURSIVE drain_completed_scrapes(_, _)
drain_completed_scrapes(c, order) ==
  IF order = <<>> THEN c
  ELSE LET i == Head(order)
           t == c.tasks[i]
           c1 == [c EXCEPT !.pending_scrape_tasks = @ \ {i}]
       IN IF t.result \in TaskFailures
          THEN [c1 EXCEPT !.raised = t.result]
          ELSE IF t.result = "None"
          THEN drain_completed_scrapes(c1, Tail(order))
          ELSE LET c2 == [c1 EXCEPT !.winners = Append(@, [url |-> t.url, prizes |-> t.prizes])]
               IN drain_completed_scrapes(
                    [c2 EXCEPT !.progress = Append(@, winner_project_scraped(c2, t.url))],
                    Tail(order))

\* The dict scrape_hackathon returns.
ScrapeResult(c) ==
  [hackathon |-> [scanned_pages |-> c.scanned_pages, winner_count |-> Len(c.winners)],
   winners |-> c.winners]

\* scrape_hackathon after its try/finally: the scanned_pages check, return.
EndCrawl(c) ==
  IF c.raised # "none" THEN [c EXCEPT !.pc = "raised"]
  ELSE IF c.scanned_pages = 0 THEN [c EXCEPT !.pc = "raised", !.raised = "parse_error"]
  ELSE [c EXCEPT !.pc = "returned"]

\* A finally block that cancels the pending tasks and does not await them.
Finally_NoGather(c) ==
  EndCrawl([c EXCEPT !.tasks =
              [i \in 1..Len(c.tasks) |->
                 IF i \in c.pending_scrape_tasks /\ c.tasks[i].state \in {"created", "fetching"}
                 THEN [c.tasks[i] EXCEPT !.state = "cancelling"]
                 ELSE c.tasks[i]]])

\* The finally block up to its await: every pending task that is not done
\* is cancelled; with tasks pending the block awaits gather(...).
Finally(c) ==
  LET c1 == [c EXCEPT !.tasks =
               [i \in 1..Len(c.tasks) |->
                  IF i \in c.pending_scrape_tasks /\ c.tasks[i].state \in {"created", "fetching"}
                  THEN [c.tasks[i] EXCEPT !.state = "cancelling"]
                  ELSE c.tasks[i]]]
  IN IF c.pending_scrape_tasks = {} THEN EndCrawl(c1) ELSE [c1 EXCEPT !.pc = "finally"]

\* The fallback decision without "not found_gallery_winners".
AfterGallery_IgnoresBadges(c) ==
  LET unique == unique_all_candidates(c.all_candidates, {})
      c1 == IF c.should_run_deep_fallback
            THEN FallbackPass(Emit(c, "winner_detection_fallback", Len(unique)), unique)
            ELSE IF ~c.found_gallery_winners
            THEN Emit(c, "winners_not_announced", 0)
            ELSE c
  IN IF c1.pending_scrape_tasks = {} THEN Finally(c1) ELSE [c1 EXCEPT !.pc = "drain"]

\* The fallback decision without "and should_run_deep_fallback".
AfterGallery_IgnoresAnnouncement(c) ==
  LET unique == unique_all_candidates(c.all_candidates, {})
      c1 == IF ~c.found_gallery_winners
            THEN FallbackPass(Emit(c, "winner_detection_fallback", Len(unique)), unique)
            ELSE c
  IN IF c1.pending_scrape_tasks = {} THEN Finally(c1) ELSE [c1 EXCEPT !.pc = "drain"]

\* scrape_hackathon from the end of the gallery loop to the next await:
\* the fallback decision and drain_completed_scrapes(wait_for_all=True),
\* reached with no pending task done.
AfterGallery(c) ==
  LET unique == unique_all_candidates(c.all_candidates, {})
      c1 == IF ~c.found_gallery_winners /\ c.should_run_deep_fallback
            THEN FallbackPass(Emit(c, "winner_detection_fallback", Len(unique)), unique)
            ELSE IF ~c.found_gallery_winners
            THEN Emit(c, "winners_not_announced", 0)
            ELSE c
  IN IF c1.pending_scrape_tasks = {} THEN Finally(c1) ELSE [c1 EXCEPT !.pc = "drain"]

\* scrape_candidate without "return None" for an unconfirmed candidate.
scrape_candidate_KeepsUnconfirmed(confirm, page) ==
  IF page = "noprize" THEN [result |-> "project", prizes |-> "Winner"]
  ELSE [result |-> "project", prizes |-> "own"]

\* scrape_candidate without the synthesized "Winner" prize.
scrape_candidate_NoSynthesizedPrize(confirm, page) ==
  IF confirm /\ page = "noprize" THEN [result |-> "None", prizes |-> "none"]
  ELSE IF ~confirm /\ page = "noprize" THEN [result |-> "project", prizes |-> "none"]
  ELSE [result |-> "project", prizes |-> "own"]

\* scrape_candidate after the fetch: the task's return value and the prizes
\* of the project it returns.
scrape_candidate(confirm, page) ==
  IF confirm /\ page = "noprize" THEN [result |-> "None", prizes |-> "none"]
  ELSE IF ~confirm /\ page = "noprize" THEN [result |-> "project", prizes |-> "Winner"]
  ELSE [result |-> "project", prizes |-> "own"]

\* ------------------------------------------------------------- fetch
\* What one client.get can end in: a response with a status code, or an
\* httpx exception (TimeoutException is tested before RequestError).
Replies ==
  {[kind |-> "response", status |-> st] : st \in {200, 403, 404, 429, 500}}
    \cup {[kind |-> k, status |-> 0] : k \in {"TimeoutException", "RequestError"}}

\* What response.json() can give: a dict, another JSON value, or ValueError.
Payloads == {"dict", "list", "ValueError"}

\* The try body of one attempt: the exception it ends in, "none" when it
\* returns the response.
Raised(reply) ==
  IF reply.kind # "response" THEN reply.kind
  ELSE IF reply.status \in {403, 429} THEN "BlockedAppError"
  ELSE IF 500 <= reply.status /\ reply.status < 600 THEN "NetworkAppError"
  ELSE IF reply.status >= 400 THEN "NetworkAppError"
  ELSE "none"

\* The except clauses without "except BlockedAppError: raise" ahead of the
\* retried ones: a denial is kept in last_error like a network failure.
Handler_BlockedRetried(exc) ==
  IF exc \in {"TimeoutException", "RequestError", "NetworkAppError", "BlockedAppError"}
  THEN "retry"
  ELSE "none"

\* The except clauses of the attempt: the exception leaves the fetch
\* ("raise") or is kept in last_error for the next attempt ("retry").
Handler(exc) ==
  IF exc = "BlockedAppError" THEN "raise"
  ELSE IF exc = "TimeoutException" THEN "retry"
  ELSE IF exc \in {"RequestError", "NetworkAppError"} THEN "retry"
  ELSE "none"

\* A backoff that doubles once more: base * 2^attempt.
Backoff_DoubledOnce(base, attempt) == base * 2 ^ attempt

\* The argument of asyncio.sleep after a failed attempt.
Backoff(base, attempt) == base * 2 ^ (attempt - 1)

\* The code after the loop without its TimeoutException test.
AfterLoop_NoTimeoutTest(last_error) == "network_error"

\* The failure raised after the loop, from last_error.
AfterLoop(last_error) ==
  IF last_error = "TimeoutException" THEN "timeout_error"
  ELSE IF last_error = "NetworkAppError" THEN "network_error"
  ELSE "network_error"

\* fetch_json after the response: the payload returned or the failure raised.
fetch_json(payload) ==
  IF payload = "ValueError" THEN "network_error"
  ELSE IF payload # "dict" THEN "network_error"
  ELSE "payload"

NoFetch == [pc |-> "idle"]

\* The frame of fetch_text (variant "text") or fetch_json (variant "json")
\* when _fetch_with_retries makes its first request.  replies and sleeps are
\* the requests answered and the sleeps made so far; error_attempt is the
\* attempt whose failure the fetch raised.
NewFetch(variant, retry_count, backoff_base_seconds) ==
  [pc |-> "get", variant |-> variant, retry_count |-> retry_count,
   backoff_base_seconds |-> backoff_base_seconds, attempt |-> 1,
   last_error |-> "none", replies |-> <<>>, sleeps |-> <<>>,
   payload |-> "none", outcome |-> "none", error_attempt |-> 0]

\* ------------------------------------------------------------- snapshot
\* The targets a build is given: two spellings of one hackathon and another.
TargetUrls ==
  { <<"a", ".devpost.com">>,
    <<"https://", "a", ".devpost.com", "/">>,
    <<"https://", "b", ".devpost.com">> }

\* The files output_dir/shards can hold before a build, by digest.
ShardsBefore == {{}, {<<"old">>, <<"https://", "a", ".devpost.com">>}}

\* snapshot_shard_relative_path: shards/<sha256 of the normalized URL>.json;
\* the digest stands for the one string that has it.
snapshot_shard_relative_path(hackathon_url) ==
  [dir |-> "shards", digest |-> normalize_hackathon_url(hackathon_url)]

\* A prune that unlinks every shard file.
prune_stale_shards_KeepsNone(files, active_relative_paths) == {}

\* prune_stale_shards: the files of output_dir/shards left after the prune.
prune_stale_shards(files, active_relative_paths) ==
  {f \in files : f \in {path.digest : path \in active_relative_paths}}

\* entries.sort(key=lambda item: item[0]); the indexes are distinct.
sort(entries) ==
  LET rank(e) == Cardinality({k \in 1..Len(entries) : entries[k].index <= e.index})
  IN [k \in 1..Len(entries) |-> CHOOSE e \in {entries[n] : n \in 1..Len(entries)} : rank(e) = k]

NoSnap == [pc |-> "idle"]

\* The frame of build_snapshot_from_targets once its tasks are created,
\* over the files the shards directory holds.
NewSnap(targets, scrape_concurrency, files) ==
  [pc |-> "run", targets |-> targets, scrape_concurrency |-> scrape_concurrency,
   fetch_semaphore |-> IF scrape_concurrency > 1 THEN scrape_concurrency ELSE 1,
   tasks |-> [i \in 1..Len(targets) |-> "waiting"],
   entries |-> <<>>, failures |-> <<>>, shards |-> files,
   manifest |-> <<>>, success_count |-> 0, failure_count |-> 0, pruned_shard_count |-> 0]

NoWorker == [pc |-> "none", job |-> 0, outcome |-> "none", emitted |-> 0]
IdleWorker == [pc |-> "idle", job |-> 0, outcome |-> "none", emitted |-> 0]

NoSocket == [state |-> "new", job |-> 0, replay |-> <<>>, received |-> <<>>]

NoResponse == [code |-> 0, id |-> 0, status |-> "none"]

Init ==
  /\ jobs = <<>>
  /\ results = {}
  /\ events = <<>>
  /\ queue = <<>>
  /\ worker = NoWorker
  /\ bc = [p \in Publishers |-> NoBroadcast]
  /\ subscribers = {}
  /\ sock = [w \in Sockets |-> NoSocket]
  /\ clock = 0
  /\ ttl \in 0..MaxTtl
  /\ nsub = 0
  /\ resp = NoResponse
  /\ crawl = NoCrawl
  /\ fetch = NoFetch
  /\ norm = NoNorm
  /\ snap = NoSnap

\* ------------------------------------------------------------- lifecycle
\* JobOrchestrator.start (lifespan startup)
Start ==
  /\ worker.pc = "none"
  /\ queue' = <<>>
  /\ worker' = IdleWorker
  /\ UNCHANGED <<jobs, results, events, bc, subscribers, sock, clock, ttl, nsub, crawl, fetch, norm, snap>>
  /\ resp' = NoResponse

\* JobOrchestrator.start with _worker_task set: it returns at once.
StartStarted ==
  /\ worker.pc # "none"
  /\ UNCHANGED <<jobs, results, events, queue, worker, bc, subscribers, sock, clock, ttl, nsub, crawl, fetch, norm, snap>>
  /\ resp' = NoResponse

\* What a call on a stopped orchestrator raises.
NotStarted == [code |-> 0, id |-> 0, status |-> "RuntimeError"]

\* JobOrchestrator.enqueue_lookup with _queue None: RuntimeError.
EnqueueStopped ==
  /\ worker.pc = "none"
  /\ resp' = NotStarted
  /\ UNCHANGED <<jobs, results, events, queue, worker, bc, subscribers, sock, clock, ttl, nsub, crawl, fetch, norm, snap>>

\* JobOrchestrator.subscribe with _subscribers_lock None: RuntimeError.
SubscribeStopped ==
  /\ worker.pc = "none"
  /\ resp' = NotStarted
  /\ UNCHANGED <<jobs, results, events, queue, worker, bc, subscribers, sock, clock, ttl, nsub, crawl, fetch, norm, snap>>

\* A stop that leaves the subscriber map as it is.
Stop_KeepsSubscribers ==
  /\ worker.pc # "none"
  /\ worker' = NoWorker
  /\ queue' = <<>>
  /\ bc' = [p \in Publishers |-> NoBroadcast]
  /\ subscribers' = subscribers
  /\ UNCHANGED <<jobs, results, events, sock, clock, ttl, nsub, crawl, fetch, norm, snap>>
  /\ resp' = NoResponse

\* JobOrchestrator.stop (lifespan shutdown): the worker is cancelled at its
\* await and awaited; the crawl's finally cancels its deep-fetch tasks.
Stop ==
  /\ worker.pc # "none"
  /\ worker' = NoWorker
  /\ queue' = <<>>
  /\ bc' = [p \in Publishers |-> NoBroadcast]
  /\ subscribers' = {}
  /\ UNCHANGED <<jobs, results, events, sock, clock, ttl, nsub, crawl, fetch, norm, snap>>
  /\ resp' = NoResponse

\* The wall clock advances.
Tick ==
  /\ clock < MaxClock
  /\ clock' = clock + 1
  /\ UNCHANGED <<jobs, results, events, queue, worker, bc, subscribers, sock, ttl, nsub, crawl, fetch, norm, snap>>
  /\ resp' = NoResponse

\* ------------------------------------------------------------- submit
\* create_lookup, branch 1: an active lookup exists for the normalized URL.
SubmitActive(url) ==
  \E a \in get_latest_active_lookup_for_url(url) :
    /\ IF jobs[a].status = "queued"
       THEN queue' = Append(queue, a)
       ELSE queue' = queue
    /\ resp' = [code |-> 200, id |-> a, status |-> jobs[a].status]
    /\ UNCHANGED <<jobs, results, events, worker, bc, subscribers, sock, clock, ttl>>

\* create_lookup, branch 2: a recent completed lookup with a result exists.
SubmitCached(url) ==
  /\ get_latest_active_lookup_for_url(url) = {}
  /\ ttl > 0
  /\ \E c \in get_recent_completed_lookup_for_url(url, utc_seconds_ago(ttl)) :
       resp' = [code |-> 200, id |-> c, status |-> jobs[c].status]
  /\ UNCHANGED <<jobs, results, events, queue, worker, bc, subscribers, sock, clock, ttl>>

\* create_lookup, branch 3: a new row, its queued event, and the enqueue.
SubmitNew(url) ==
  /\ get_latest_active_lookup_for_url(url) = {}
  /\ ttl > 0 => get_recent_completed_lookup_for_url(url, utc_seconds_ago(ttl)) = {}
  /\ LET id == Len(jobs) + 1 IN
       /\ jobs' = Append(jobs, NewJob(url))
       \* publish_event: no connection is subscribed to an id that did not
       \* exist before this call, so _broadcast returns at "if not sockets"
       /\ events' = insert_progress_event(Append(events, <<>>), id, "queued", NullCode)
       /\ queue' = Append(queue, id)
       /\ resp' = [code |-> 200, id |-> id, status |-> "queued"]
  /\ UNCHANGED <<results, worker, bc, subscribers, sock, clock, ttl>>

\* create_lookup: the URL is rejected with 422 before the store is touched.
SubmitInvalid ==
  /\ resp' = [code |-> 422, id |-> 0, status |-> "validation_error"]
  /\ UNCHANGED <<jobs, results, events, queue, worker, bc, subscribers, sock, clock, ttl>>

\* POST /lookups, served while the application is up.
Submit(raw) ==
  /\ worker.pc # "none"
  /\ nsub' = nsub + 1
  /\ UNCHANGED <<crawl, fetch, norm, snap>>
  /\ LET url == Normalized[raw] IN
       IF url = Invalid THEN SubmitInvalid
       ELSE SubmitActive(url) \/ SubmitCached(url) \/ SubmitNew(url)

\* ------------------------------------------------------------- worker
\* A worker loop that starts _process_lookup without awaiting it: the next
\* id is taken while the crawl of the last one is still running.
WorkerTake_NotAwaited ==
  /\ worker.pc \in {"idle", "crawl"}
  /\ queue # <<>>
  /\ LET j == Head(queue) IN
       /\ queue' = Tail(queue)
       /\ jobs' = set_lookup_started(j)
       /\ events' = insert_progress_event(events, j, "started", NullCode)
       /\ worker' = [pc |-> "crawl", job |-> j, outcome |-> "none", emitted |-> 0]
  /\ UNCHANGED <<results, bc, sock, subscribers, clock, ttl, nsub, crawl, fetch, norm, snap>>
  /\ resp' = NoResponse

\* A worker loop that takes the id enqueued last.
WorkerTake_TakesLast ==
  /\ worker.pc = "idle"
  /\ queue # <<>>
  /\ LET j == queue[Len(queue)] IN
       /\ queue' = SubSeq(queue, 1, Len(queue) - 1)
       /\ jobs' = set_lookup_started(j)
       /\ events' = insert_progress_event(events, j, "started", NullCode)
       /\ worker' = [pc |-> "crawl", job |-> j, outcome |-> "none", emitted |-> 0]
  /\ UNCHANGED <<results, bc, sock, subscribers, clock, ttl, nsub, crawl, fetch, norm, snap>>
  /\ resp' = NoResponse

\* _worker_loop: queue.get() returns; _process_lookup reads the row, marks
\* it started and publishes "started", up to the first suspension.
WorkerTake ==
  /\ worker.pc = "idle"
  /\ queue # <<>>
  /\ LET j == Head(queue) IN
       /\ queue' = Tail(queue)
       /\ IF j \notin 1..Len(jobs)
          THEN UNCHANGED <<jobs, events, worker, bc, sock>>
          ELSE /\ jobs' = set_lookup_started(j)
               /\ \E order \in Orders(SocketsOf(j)) :
                    /\ PublishEffect("main", j, "started", NullCode, order)
                    /\ worker' = [pc |-> IF bc'["main"] # NoBroadcast THEN "started_bc" ELSE "crawl",
                                  job |-> j, outcome |-> "none", emitted |-> 0]
  /\ UNCHANGED <<results, subscribers, clock, ttl, nsub, crawl, fetch, norm, snap>>
  /\ resp' = NoResponse

\* A _broadcast that returns after its loop and leaves the stale sockets
\* in the subscriber set.
BroadcastNext_KeepsStale(p) ==
  /\ bc[p] # NoBroadcast
  /\ IF bc[p].todo # <<>>
     THEN LET w == Head(bc[p].todo)
              st == bc[p].stale \cup (IF SendFails(sock, w, bc[p].job) THEN {w} ELSE {}) IN
            /\ sock' = SendTo(sock, w, bc[p].job, bc[p].ev)
            /\ bc' = [bc EXCEPT ![p] = IF Len(@.todo) = 1 /\ st = {}
                                        THEN NoBroadcast
                                        ELSE [@ EXCEPT !.todo = Tail(@), !.stale = st]]
     ELSE /\ sock' = sock
          /\ bc' = [bc EXCEPT ![p] = NoBroadcast]
  /\ subscribers' = subscribers
  /\ worker' = IF p = "main" /\ bc'[p] = NoBroadcast
               THEN IF worker.pc = "started_bc" THEN [worker EXCEPT !.pc = "crawl"]
                    ELSE IF worker.pc = "end_bc" THEN [worker EXCEPT !.pc = "idle"]
                    ELSE worker
               ELSE worker
  /\ UNCHANGED <<jobs, results, events, queue, clock, ttl, nsub, crawl, fetch, norm, snap>>
  /\ resp' = NoResponse

\* _broadcast by publisher p: the pending send_json returned or raised; the
\* loop calls send_json on the next socket of its copy, or, the copy done,
\* discards the stale sockets from the subscriber set and returns.
BroadcastNext(p) ==
  /\ bc[p] # NoBroadcast
  /\ IF bc[p].todo # <<>>
     THEN LET w == Head(bc[p].todo)
              st == bc[p].stale \cup (IF SendFails(sock, w, bc[p].job) THEN {w} ELSE {}) IN
            /\ sock' = SendTo(sock, w, bc[p].job, bc[p].ev)
            /\ bc' = [bc EXCEPT ![p] = IF Len(@.todo) = 1 /\ st = {}
                                        THEN NoBroadcast
                                        ELSE [@ EXCEPT !.todo = Tail(@), !.stale = st]]
            /\ subscribers' = subscribers
     ELSE /\ sock' = sock
          /\ bc' = [bc EXCEPT ![p] = NoBroadcast]
          /\ subscribers' = subscribers \ {<<bc[p].job, w>> : w \in bc[p].stale}
  /\ worker' = IF p = "main" /\ bc'[p] = NoBroadcast
               THEN IF worker.pc = "started_bc" THEN [worker EXCEPT !.pc = "crawl"]
                    ELSE IF worker.pc = "end_bc" THEN [worker EXCEPT !.pc = "idle"]
                    ELSE worker
               ELSE worker
  /\ UNCHANGED <<jobs, results, events, queue, clock, ttl, nsub, crawl, fetch, norm, snap>>
  /\ resp' = NoResponse

\* The progress event a publisher of the crawl sends through progress_callback.
ProgressType(p) == IF p = "main" THEN "gallery_page_scanned" ELSE "winner_project_found"

\* scrape_hackathon calls progress_callback: from its main loop (p = "main")
\* or from a deep-fetch task running beside it (p = "task").
CrawlEmit(p) ==
  /\ worker.pc = "crawl"
  /\ bc[p] = NoBroadcast
  /\ worker.emitted < MaxProgress
  /\ \E order \in Orders(SocketsOf(worker.job)) :
       PublishEffect(p, worker.job, ProgressType(p), NullCode, order)
  /\ worker' = [worker EXCEPT !.emitted = @ + 1]
  /\ UNCHANGED <<jobs, results, queue, subscribers, clock, ttl, nsub, crawl, fetch, norm, snap>>
  /\ resp' = NoResponse

\* When the awaited crawl can end with outcome o: a result once every task
\* is drained, a failure raised by the main loop, or the wait_for deadline,
\* which cancels the crawl wherever it is suspended.
CrawlCanEnd(o) ==
  /\ worker.pc = "crawl"
  /\ o = "result" => bc["main"] = NoBroadcast /\ bc["task"] = NoBroadcast
  /\ o \notin {"result", "deadline"} => bc["main"] = NoBroadcast

\* _process_lookup after the crawl: the result or the failure is persisted
\* and the terminal event published; an uncaught failure ends the worker.
WorkerEnd(o) ==
  /\ CrawlCanEnd(o)
  /\ LET j == worker.job IN
       IF o = "result"
       THEN /\ results' = results \cup {j}
            /\ jobs' = set_lookup_completed(j)
            /\ \E order \in Orders(SocketsOf(j)) :
                 /\ events' = insert_progress_event(events, j, "completed", NullCode)
                 /\ sock' = IF order = <<>> THEN sock ELSE SendTo(sock, order[1], j, Len(events[j]) + 1)
                 /\ bc' = [bc EXCEPT !["task"] = NoBroadcast,
                                     !["main"] = IF order = <<>> THEN NoBroadcast
                                                 ELSE FirstSend(j, Len(events[j]) + 1, order)]
                 /\ worker' = [worker EXCEPT !.pc = IF bc'["main"] # NoBroadcast THEN "end_bc" ELSE "idle",
                                             !.outcome = o]
       ELSE IF CatchClause(o) = "none"
       THEN /\ worker' = [worker EXCEPT !.pc = "dead", !.outcome = o]
            /\ bc' = [p \in Publishers |-> NoBroadcast]
            /\ UNCHANGED <<jobs, results, events, sock>>
       ELSE /\ results' = results
            /\ jobs' = set_lookup_failed(j, FailureCode(o))
            /\ \E order \in Orders(SocketsOf(j)) :
                 /\ events' = insert_progress_event(events, j, "failed", FailureCode(o))
                 /\ sock' = IF order = <<>> THEN sock ELSE SendTo(sock, order[1], j, Len(events[j]) + 1)
                 /\ bc' = [bc EXCEPT !["task"] = NoBroadcast,
                                     !["main"] = IF order = <<>> THEN NoBroadcast
                                                 ELSE FirstSend(j, Len(events[j]) + 1, order)]
                 /\ worker' = [worker EXCEPT !.pc = IF bc'["main"] # NoBroadcast THEN "end_bc" ELSE "idle",
                                             !.outcome = o]
  /\ UNCHANGED <<queue, subscribers, clock, ttl, nsub, crawl, fetch, norm, snap>>
  /\ resp' = NoResponse

\* ------------------------------------------------------------- websocket
\* lookup_events up to its first suspension after accept(): the row exists,
\* the socket is subscribed, the stored events are read and the first is sent.
Connect(w, j) ==
  /\ worker.pc # "none"
  /\ sock[w].state = "new"
  /\ j \in 1..Len(jobs)
  /\ subscribers' = subscribers \cup {<<j, w>>}
  /\ LET n == Len(events[j]) IN
       sock' = [sock EXCEPT ![w] = [state |-> IF n > 1 THEN "replay" ELSE "live",
                                    job |-> j,
                                    replay |-> [i \in 1..(n - 1) |-> i + 1],
                                    received |-> IF n > 0 THEN <<1>> ELSE <<>>]]
  /\ UNCHANGED <<jobs, results, events, queue, worker, bc, clock, ttl, nsub, crawl, fetch, norm, snap>>
  /\ resp' = NoResponse

\* lookup_events: the replay loop sends the next stored event.
ReplayNext(w) ==
  /\ sock[w].state = "replay"
  /\ sock' = [sock EXCEPT ![w].received = Append(@, Head(sock[w].replay)),
                          ![w].replay = Tail(@),
                          ![w].state = IF Len(sock[w].replay) = 1 THEN "live" ELSE "replay"]
  /\ UNCHANGED <<jobs, results, events, queue, worker, bc, subscribers, clock, ttl, nsub, crawl, fetch, norm, snap>>
  /\ resp' = NoResponse

\* lookup_events: receive_text raises WebSocketDisconnect; unsubscribe.
Disconnect(w) ==
  /\ sock[w].state = "live"
  /\ subscribers' = subscribers \ {<<sock[w].job, w>>}
  /\ sock' = [sock EXCEPT ![w] = [state |-> "gone", job |-> 0, replay |-> <<>>, received |-> <<>>]]
  /\ UNCHANGED <<jobs, results, events, queue, worker, bc, clock, ttl, nsub, crawl, fetch, norm, snap>>
  /\ resp' = NoResponse

\* The peer of connection w closes it; the handler has not noticed yet.
Break(w) ==
  /\ sock[w].state \in {"replay", "live"}
  /\ sock' = [sock EXCEPT ![w].state = "broken"]
  /\ UNCHANGED <<jobs, results, events, queue, worker, bc, subscribers, clock, ttl, nsub, crawl, fetch, norm, snap>>
  /\ resp' = NoResponse

\* lookup_events on a closed connection: receive_text raises
\* WebSocketDisconnect and the finally unsubscribes; a send_json of the
\* replay loop raises outside the try, and the handler ends still subscribed.
HandlerEnd(w) ==
  /\ sock[w].state = "broken"
  /\ IF sock[w].replay = <<>>
     THEN /\ subscribers' = subscribers \ {<<sock[w].job, w>>}
          /\ sock' = [sock EXCEPT ![w] = [state |-> "gone", job |-> 0, replay |-> <<>>, received |-> <<>>]]
     ELSE /\ subscribers' = subscribers
          /\ sock' = [sock EXCEPT ![w].state = "aborted", ![w].replay = <<>>]
  /\ UNCHANGED <<jobs, results, events, queue, worker, bc, clock, ttl, nsub, crawl, fetch, norm, snap>>
  /\ resp' = NoResponse

\* ------------------------------------------------------------- crawl steps
\* The variables of the orchestrator, which a step of the crawl leaves alone.
orchVars == <<jobs, results, events, queue, worker, bc, subscribers, sock, clock, ttl, nsub, resp>>

\* What a gallery page parses to: the urls of its entries, those with a
\* winner badge, and the page its rel=next link names (0: none).
GalleryPages ==
  {[all_entries |-> e, winner_entries |-> w, next_page_url |-> n] :
     e \in SUBSET Projects, w \in SUBSET Projects, n \in 0..MaxPages}

\* The fetch of the landing page returns or raises (outside the try block).
FetchLanding ==
  /\ crawl.pc = "landing"
  /\ \/ \E f \in GalleryFailures :
          crawl' = [crawl EXCEPT !.pc = "raised", !.raised = f, !.trouble = @ \cup {f}]
     \/ \E announced \in BOOLEAN :
          crawl' = [crawl EXCEPT !.pc = "page", !.should_run_deep_fallback = announced,
                                 !.page_url = 1]
  /\ UNCHANGED <<orchVars, fetch, norm, snap>>

\* A gallery loop whose condition is "while page_url", without the
\* visited_pages test.
ScanPage_NoVisitedTest(parsed, order) ==
  LET c1 == [crawl EXCEPT !.visited_pages = @ \cup {crawl.page_url},
                          !.scanned_pages = @ + 1,
                          !.all_candidates = @ \o Ascending(parsed.all_entries),
                          !.badge_urls = @ \cup parsed.winner_entries]
      c2 == BadgePass(c1, Ascending(parsed.winner_entries))
      c3 == Emit(c2, "gallery_page_scanned", c2.scanned_pages)
      c4 == drain_completed_scrapes(c3, order)
      c5 == [c4 EXCEPT !.page_url = parsed.next_page_url]
  IN IF c4.raised # "none" THEN Finally(c4)
     ELSE IF c5.page_url # 0 THEN c5
     ELSE AfterGallery(c5)

\* One turn of the gallery loop from the return of fetch_text(page_url) to
\* the next await: parse, badge pass, gallery_page_scanned, the non-waiting
\* drain, and, when the loop ends, the fallback decision and final drain.
ScanPage(parsed, order) ==
  LET c1 == [crawl EXCEPT !.visited_pages = @ \cup {crawl.page_url},
                          !.scanned_pages = @ + 1,
                          !.all_candidates = @ \o Ascending(parsed.all_entries),
                          !.badge_urls = @ \cup parsed.winner_entries]
      c2 == BadgePass(c1, Ascending(parsed.winner_entries))
      c3 == Emit(c2, "gallery_page_scanned", c2.scanned_pages)
      c4 == drain_completed_scrapes(c3, order)
      c5 == [c4 EXCEPT !.page_url = parsed.next_page_url]
  IN IF c4.raised # "none" THEN Finally(c4)
     ELSE IF c5.page_url # 0 /\ c5.page_url \notin c5.visited_pages THEN c5
     ELSE AfterGallery(c5)

\* Gallery pages of at most one entry, badge-tagged, in a gallery of up to
\* MaxBadgePages pages.
BadgePages ==
  {[all_entries |-> e, winner_entries |-> e, next_page_url |-> n] :
     e \in {{}} \cup {{u} : u \in Projects}, n \in 0..MaxBadgePages}

\* The fetch of a gallery page returns, parsed to one of pages, or raises.
FetchPageOf(pages) ==
  /\ crawl.pc = "page"
  /\ \/ \E f \in GalleryFailures :
          crawl' = Finally([crawl EXCEPT !.visited_pages = @ \cup {crawl.page_url},
                                         !.raised = f, !.trouble = @ \cup {f}])
     \/ \E parsed \in pages :
          /\ parsed.winner_entries \subseteq parsed.all_entries
          /\ \E order \in Orders(DoneTasks(crawl)) : crawl' = ScanPage(parsed, order)
  /\ UNCHANGED <<orchVars, fetch, norm, snap>>

\* The fetch of a gallery page returns or raises.
FetchPage == FetchPageOf(GalleryPages)

\* drain_completed_scrapes(wait_for_all=True): asyncio.wait returns with the
\* tasks that are done by then.
DrainWake ==
  /\ crawl.pc = "drain"
  /\ DoneTasks(crawl) # {}
  /\ \E order \in Orders(DoneTasks(crawl)) :
       LET c1 == drain_completed_scrapes(crawl, order)
       IN crawl' = IF c1.raised # "none" \/ c1.pending_scrape_tasks = {}
                   THEN Finally(c1)
                   ELSE c1
  /\ UNCHANGED <<orchVars, fetch, norm, snap>>

\* asyncio.wait_for's deadline cancels the crawl at its await.  In the
\* finally block the cancelled gather still completes only when every
\* task is done.
Deadline ==
  /\ crawl.pc \in {"landing", "page", "drain", "finally"}
  /\ "cancelled" \notin crawl.trouble
  /\ LET c1 == [crawl EXCEPT !.raised = "cancelled", !.trouble = @ \cup {"cancelled"}]
     IN crawl' = IF crawl.pc = "landing" THEN [c1 EXCEPT !.pc = "raised"]
                 ELSE IF crawl.pc = "finally" THEN c1
                 ELSE Finally(c1)
  /\ UNCHANGED <<orchVars, fetch, norm, snap>>

\* The gather awaited in the finally block completes.
CleanupDone ==
  /\ crawl.pc = "finally"
  /\ \A i \in crawl.pending_scrape_tasks : crawl.tasks[i].state \in {"done", "cancelled"}
  /\ crawl' = EndCrawl(crawl)
  /\ UNCHANGED <<orchVars, fetch, norm, snap>>

\* scrape_candidate_with_limit: the task enters "async with fetch_semaphore"
\* and starts its fetch.
TaskStart(i) ==
  /\ i \in 1..Len(crawl.tasks)
  /\ crawl.tasks[i].state = "created"
  /\ crawl.fetch_semaphore > 0
  /\ crawl' = [crawl EXCEPT !.fetch_semaphore = @ - 1,
                            !.tasks[i].state = "fetching",
                            !.tasks[i].holds = TRUE]
  /\ UNCHANGED <<orchVars, fetch, norm, snap>>

\* A task whose permit is released only on the success path.
TaskFail_NoRelease(i, f) ==
  /\ i \in 1..Len(crawl.tasks)
  /\ crawl.tasks[i].state = "fetching"
  /\ crawl' = [crawl EXCEPT !.tasks[i].state = "done",
                            !.tasks[i].holds = FALSE,
                            !.tasks[i].result = f,
                            !.completed = Append(@, i),
                            !.trouble = @ \cup {f}]
  /\ UNCHANGED <<orchVars, fetch, norm, snap>>

\* The task's fetch raised f: the exception leaves "async with", which
\* releases the permit, and ends the task.
TaskFail(i, f) ==
  /\ i \in 1..Len(crawl.tasks)
  /\ crawl.tasks[i].state = "fetching"
  /\ crawl' = [crawl EXCEPT !.fetch_semaphore = @ + 1,
                            !.tasks[i].state = "done",
                            !.tasks[i].holds = FALSE,
                            !.tasks[i].result = f,
                            !.completed = Append(@, i),
                            !.trouble = @ \cup {f}]
  /\ UNCHANGED <<orchVars, fetch, norm, snap>>

\* A task that returns a confirmed project without its
\* winner_project_found event.
TaskDone_NoFoundEvent(i, page) ==
  /\ i \in 1..Len(crawl.tasks)
  /\ crawl.tasks[i].state = "fetching"
  /\ LET t == crawl.tasks[i]
         r == scrape_candidate(t.requires_prize_confirmation, page)
     IN crawl' = [crawl EXCEPT !.fetch_semaphore = @ + 1,
                               !.tasks[i].state = "done",
                               !.tasks[i].holds = FALSE,
                               !.tasks[i].page = page,
                               !.tasks[i].result = r.result,
                               !.tasks[i].prizes = r.prizes,
                               !.completed = Append(@, i)]
  /\ UNCHANGED <<orchVars, fetch, norm, snap>>

\* The task's fetch returned a project page: scrape_candidate filters or
\* keeps the project, the permit is released and the task ends.
TaskDone(i, page) ==
  /\ i \in 1..Len(crawl.tasks)
  /\ crawl.tasks[i].state = "fetching"
  /\ LET t == crawl.tasks[i]
         r == scrape_candidate(t.requires_prize_confirmation, page)
         c1 == [crawl EXCEPT !.fetch_semaphore = @ + 1,
                             !.tasks[i].state = "done",
                             !.tasks[i].holds = FALSE,
                             !.tasks[i].page = page,
                             !.tasks[i].result = r.result,
                             !.tasks[i].prizes = r.prizes,
                             !.completed = Append(@, i)]
     IN crawl' = IF t.requires_prize_confirmation /\ r.result = "project"
                 THEN Emit(c1, "winner_project_found", t.url)
                 ELSE c1
  /\ UNCHANGED <<orchVars, fetch, norm, snap>>

\* A cancelled task runs: CancelledError leaves "async with" (releasing the
\* permit when the task held one) and ends the task.
TaskCancelled(i) ==
  /\ i \in 1..Len(crawl.tasks)
  /\ crawl.tasks[i].state = "cancelling"
  /\ crawl' = [crawl EXCEPT !.fetch_semaphore = IF crawl.tasks[i].holds THEN @ + 1 ELSE @,
                            !.tasks[i].state = "cancelled",
                            !.tasks[i].holds = FALSE]
  /\ UNCHANGED <<orchVars, fetch, norm, snap>>

\* ------------------------------------------------------------- fetch steps
\* The variables no step of a fetch touches.
notFetchVars == <<orchVars, crawl, norm, snap>>

\* _fetch_with_retries: the awaited client.get of this attempt ends in reply.
Get(reply) ==
  /\ fetch.pc = "get"
  /\ LET exc == Raised(reply)
         f == [fetch EXCEPT !.replies = Append(@, reply)] IN
       fetch' =
         IF exc = "none" THEN [f EXCEPT !.pc = "response"]
         ELSE IF Handler(exc) = "raise"
         THEN [f EXCEPT !.pc = "done", !.outcome = "blocked_error", !.error_attempt = fetch.attempt]
         ELSE IF Handler(exc) = "retry"
         THEN IF fetch.attempt = fetch.retry_count
              THEN [f EXCEPT !.pc = "done", !.last_error = exc,
                             !.outcome = AfterLoop(exc), !.error_attempt = fetch.attempt]
              ELSE [f EXCEPT !.pc = "sleep", !.last_error = exc,
                             !.sleeps = Append(@, Backoff(fetch.backoff_base_seconds, fetch.attempt))]
         ELSE [f EXCEPT !.pc = "done", !.outcome = "exception", !.error_attempt = fetch.attempt]
  /\ UNCHANGED notFetchVars

\* _fetch_with_retries: asyncio.sleep returns and the next attempt begins.
Wake ==
  /\ fetch.pc = "sleep"
  /\ fetch' = [fetch EXCEPT !.pc = "get", !.attempt = @ + 1]
  /\ UNCHANGED notFetchVars

\* fetch_text returns response.text; fetch_json decodes the body to payload.
Return(payload) ==
  /\ fetch.pc = "response"
  /\ fetch' = IF fetch.variant = "text"
              THEN [fetch EXCEPT !.pc = "done", !.outcome = "text"]
              ELSE [fetch EXCEPT !.pc = "done", !.payload = payload, !.outcome = fetch_json(payload)]
  /\ UNCHANGED notFetchVars

\* ------------------------------------------------------------- URL steps
\* normalize_hackathon_url(raw) returns or raises.
Normalize ==
  /\ norm.pc = "raw"
  /\ LET out == normalize_hackathon_url(norm.raw) IN
       norm' = [norm EXCEPT !.pc = IF out = Invalid THEN "rejected" ELSE "accepted", !.out = out]
  /\ UNCHANGED <<orchVars, crawl, fetch, snap>>

\* The returned string is normalized again (scrape_hackathon and
\* snapshot_shard_relative_path do so with the URL a job was stored under).
Renormalize ==
  /\ norm.pc = "accepted"
  /\ norm' = [norm EXCEPT !.pc = "again", !.again = normalize_hackathon_url(norm.out)]
  /\ UNCHANGED <<orchVars, crawl, fetch, snap>>

\* ------------------------------------------------------------- snapshot steps
\* scrape_target(index, hackathon_url) acquires fetch_semaphore and calls
\* scrape_hackathon.  Task i has index i - 1.
ScrapeTargetStart(i) ==
  /\ snap.pc = "run"
  /\ snap.tasks[i] = "waiting"
  /\ snap.fetch_semaphore > 0
  /\ snap' = [snap EXCEPT !.tasks[i] = "crawling", !.fetch_semaphore = @ - 1]
  /\ UNCHANGED <<orchVars, crawl, fetch, norm>>

\* scrape_target: the crawl raises; the failure is recorded and the task
\* returns None.
ScrapeTargetFail(i) ==
  /\ snap.pc = "run"
  /\ snap.tasks[i] = "crawling"
  /\ snap' = [snap EXCEPT !.tasks[i] = "failed",
                           !.fetch_semaphore = @ + 1,
                           !.failures = Append(@, [hackathon_url |-> snap.targets[i]])]
  /\ UNCHANGED <<orchVars, crawl, fetch, norm>>

\* scrape_target: the crawl returns (scrape_hackathon normalizes its target
\* first, so the target is a valid one); the shard is written and the
\* task's entry is appended by the as_completed loop.
ScrapeTargetDone(i) ==
  /\ snap.pc = "run"
  /\ snap.tasks[i] = "crawling"
  /\ normalize_hackathon_url(snap.targets[i]) # Invalid
  /\ LET shard_path == snapshot_shard_relative_path(snap.targets[i]) IN
       snap' = [snap EXCEPT !.tasks[i] = "done",
                            !.fetch_semaphore = @ + 1,
                            !.shards = @ \cup {shard_path.digest},
                            !.entries = Append(@, [index |-> i - 1,
                                                   hackathon_url |-> snap.targets[i],
                                                   shard_path |-> shard_path])]
  /\ UNCHANGED <<orchVars, crawl, fetch, norm>>

\* build_snapshot_from_targets after its tasks: the entries are sorted, the
\* stale shards pruned, the manifest written and the report returned.
BuildReturn ==
  /\ snap.pc = "run"
  /\ \A i \in 1..Len(snap.tasks) : snap.tasks[i] \in {"done", "failed"}
  /\ LET ordered == sort(snap.entries)
         active_shard_paths == {ordered[k].shard_path : k \in 1..Len(ordered)}
         kept == prune_stale_shards(snap.shards, active_shard_paths)
     IN snap' = [snap EXCEPT !.pc = "returned",
                             !.entries = ordered,
                             !.shards = kept,
                             !.manifest = [k \in 1..Len(ordered) |->
                                             [hackathon_url |-> ordered[k].hackathon_url,
                                              shard_path |-> ordered[k].shard_path]],
                             !.success_count = Len(ordered),
                             !.failure_count = Len(snap.failures),
                             !.pruned_shard_count = Cardinality(snap.shards \ kept)]
  /\ UNCHANGED <<orchVars, crawl, fetch, norm>>

\* The first n requests of a run.
SubmitUpTo(raw, n) == nsub < n /\ Submit(raw)

\* ------------------------------------------------------------- specifications
\* The crawl outcomes explored where the failure's kind does not matter.
SomeOutcomes == {"result", "network_error"}

\* The job lifecycle: submits, the worker, restarts.
Next ==
  \/ Start
  \/ Stop
  \/ \E raw \in SubmitUrls : SubmitUpTo(raw, MaxSubmits)
  \/ WorkerTake
  \/ CrawlEmit("main")
  \/ \E o \in SomeOutcomes : WorkerEnd(o)

Spec == Init /\ [][Next]_vars

\* The job lifecycle in time: the freshness window of completed lookups.
NextCache ==
  \/ Start
  \/ Tick
  \/ \E raw \in SubmitUrls : SubmitUpTo(raw, MaxSubmitsCache)
  \/ WorkerTake
  \/ \E o \in SomeOutcomes : WorkerEnd(o)

SpecCache == Init /\ [][NextCache]_vars

\* The worker under every way a crawl can end.
NextFail ==
  \/ Start
  \/ Stop
  \/ \E raw \in SubmitUrls : SubmitUpTo(raw, MaxSubmitsFail)
  \/ WorkerTake
  \/ \E o \in Outcomes : WorkerEnd(o)

SpecFail == Init /\ [][NextFail]_vars

\* How a crawl ends by itself or is ended by the whole-crawl timeout.
EndingOutcomes == {"result", "network_error", "deadline"}

\* The job lifecycle under a fair scheduler: the event loop runs the worker
\* when queue.get() can return, and every crawl ends or is ended by the
\* timeout of wait_for.
NextLive ==
  \/ Start
  \/ Stop
  \/ \E raw \in SubmitUrls : SubmitUpTo(raw, MaxSubmitsLive)
  \/ WorkerTake
  \/ \E o \in EndingOutcomes : WorkerEnd(o)

SpecLive ==
  /\ Init
  /\ [][NextLive]_vars
  /\ WF_vars(WorkerTake)
  /\ WF_vars(\E o \in EndingOutcomes : WorkerEnd(o))

\* The orchestrator started, stopped and started again, with submits,
\* connections and the worker in between, and calls made while it is stopped.
NextLifecycle ==
  \/ Start
  \/ StartStarted
  \/ Stop
  \/ EnqueueStopped
  \/ SubscribeStopped
  \/ \E raw \in SubmitUrls : SubmitUpTo(raw, MaxSubmitsLifecycle)
  \/ WorkerTake
  \/ \E p \in Publishers : BroadcastNext(p)
  \/ \E o \in SomeOutcomes : WorkerEnd(o)
  \/ \E w \in Sockets : \E j \in 1..Len(jobs) : Connect(w, j)
  \/ \E w \in Sockets : ReplayNext(w)
  \/ \E w \in Sockets : Disconnect(w)

SpecLifecycle == Init /\ [][NextLifecycle]_vars

\* The application is up and one lookup has been submitted.
InitSubs ==
  /\ jobs = <<[url |-> <<"https://", "a", ".devpost.com">>, status |-> "queued",
               created_at |-> 0, started_at |-> NullTime, finished_at |-> NullTime,
               error_code |-> NullCode]>>
  /\ results = {}
  /\ events = << <<Event("queued", NullCode)>> >>
  /\ queue = <<1>>
  /\ worker = IdleWorker
  /\ bc = [p \in Publishers |-> NoBroadcast]
  /\ subscribers = {}
  /\ sock = [w \in Sockets |-> NoSocket]
  /\ clock = 0
  /\ ttl = 0
  /\ nsub = 0
  /\ resp = NoResponse
  /\ crawl = NoCrawl
  /\ fetch = NoFetch
  /\ norm = NoNorm
  /\ snap = NoSnap

\* Event delivery: subscribers, replay and broadcast beside the worker.
NextSubs ==
  \/ WorkerTake
  \/ \E p \in Publishers : BroadcastNext(p)
  \/ \E p \in Publishers : CrawlEmit(p)
  \/ \E o \in SomeOutcomes : WorkerEnd(o)
  \/ \E w \in Sockets : \E j \in 1..Len(jobs) : Connect(w, j)
  \/ \E w \in Sockets : ReplayNext(w)
  \/ \E w \in Sockets : Disconnect(w)

SpecSubs == InitSubs /\ [][NextSubs]_vars

\* Event delivery over connections that can break.
NextDeliver ==
  \/ WorkerTake
  \/ \E p \in Publishers : BroadcastNext(p)
  \/ \E p \in Publishers : CrawlEmit(p)
  \/ \E o \in SomeOutcomes : WorkerEnd(o)
  \/ \E w \in Sockets : \E j \in 1..Len(jobs) : Connect(w, j)
  \/ \E w \in Sockets : ReplayNext(w)
  \/ \E w \in Sockets : Disconnect(w)
  \/ \E w \in Sockets : Break(w)
  \/ \E w \in Sockets : HandlerEnd(w)

SpecDeliver == InitSubs /\ [][NextDeliver]_vars

\* One crawl, from the call of scrape_hackathon, for every gallery, every
\* project page and every schedule of its tasks.
InitCrawl ==
  /\ jobs = <<>>
  /\ results = {}
  /\ events = <<>>
  /\ queue = <<>>
  /\ worker = NoWorker
  /\ bc = [p \in Publishers |-> NoBroadcast]
  /\ subscribers = {}
  /\ sock = [w \in Sockets |-> NoSocket]
  /\ clock = 0
  /\ ttl = 0
  /\ nsub = 0
  /\ resp = NoResponse
  /\ \E k \in 1..MaxConcurrency : crawl = NewCrawl(k)
  /\ fetch = NoFetch
  /\ norm = NoNorm
  /\ snap = NoSnap

NextCrawl ==
  \/ FetchLanding
  \/ FetchPage
  \/ DrainWake
  \/ Deadline
  \/ CleanupDone
  \/ \E i \in 1..Len(crawl.tasks) : TaskStart(i)
  \/ \E i \in 1..Len(crawl.tasks) : \E f \in TaskFailures : TaskFail(i, f)
  \/ \E i \in 1..Len(crawl.tasks) : \E page \in ProjectPages : TaskDone(i, page)
  \/ \E i \in 1..Len(crawl.tasks) : TaskCancelled(i)

SpecCrawl == InitCrawl /\ [][NextCrawl]_vars

\* One crawl of a longer gallery whose every entry carries the badge.
NextBadges ==
  \/ FetchLanding
  \/ FetchPageOf(BadgePages)
  \/ DrainWake
  \/ Deadline
  \/ CleanupDone
  \/ \E i \in 1..Len(crawl.tasks) : TaskStart(i)
  \/ \E i \in 1..Len(crawl.tasks) : \E f \in TaskFailures : TaskFail(i, f)
  \/ \E i \in 1..Len(crawl.tasks) : \E page \in ProjectPages : TaskDone(i, page)
  \/ \E i \in 1..Len(crawl.tasks) : TaskCancelled(i)

SpecBadges == InitCrawl /\ [][NextBadges]_vars

\* One fetch_text or fetch_json call, for every attempt budget, backoff base
\* and sequence of replies.
InitFetch ==
  /\ jobs = <<>>
  /\ results = {}
  /\ events = <<>>
  /\ queue = <<>>
  /\ worker = NoWorker
  /\ bc = [p \in Publishers |-> NoBroadcast]
  /\ subscribers = {}
  /\ sock = [w \in Sockets |-> NoSocket]
  /\ clock = 0
  /\ ttl = 0
  /\ nsub = 0
  /\ resp = NoResponse
  /\ crawl = NoCrawl
  /\ \E variant \in {"text", "json"} : \E n \in 1..MaxRetries : \E b \in 1..MaxBackoffBase :
       fetch = NewFetch(variant, n, b)
  /\ norm = NoNorm
  /\ snap = NoSnap

NextFetch ==
  \/ \E reply \in Replies : Get(reply)
  \/ Wake
  \/ \E payload \in Payloads : Return(payload)

SpecFetch == InitFetch /\ [][NextFetch]_vars

\* normalize_hackathon_url on every raw URL of RawUrls.
InitUrl ==
  /\ jobs = <<>>
  /\ results = {}
  /\ events = <<>>
  /\ queue = <<>>
  /\ worker = NoWorker
  /\ bc = [p \in Publishers |-> NoBroadcast]
  /\ subscribers = {}
  /\ sock = [w \in Sockets |-> NoSocket]
  /\ clock = 0
  /\ ttl = 0
  /\ nsub = 0
  /\ resp = NoResponse
  /\ crawl = NoCrawl
  /\ fetch = NoFetch
  /\ \E raw \in RawUrls : norm = [pc |-> "raw", raw |-> raw, out |-> <<>>, again |-> <<>>]
  /\ snap = NoSnap

NextUrl ==
  \/ Normalize
  \/ Renormalize

SpecUrl == InitUrl /\ [][NextUrl]_vars

\* One build_snapshot_from_targets call, for every list of targets, every
\* scrape_concurrency the build script accepts and every schedule.
InitSnap ==
  /\ jobs = <<>>
  /\ results = {}
  /\ events = <<>>
  /\ queue = <<>>
  /\ worker = NoWorker
  /\ bc = [p \in Publishers |-> NoBroadcast]
  /\ subscribers = {}
  /\ sock = [w \in Sockets |-> NoSocket]
  /\ clock = 0
  /\ ttl = 0
  /\ nsub = 0
  /\ resp = NoResponse
  /\ crawl = NoCrawl
  /\ fetch = NoFetch
  /\ norm = NoNorm
  /\ \E n \in 0..MaxTargets : \E targets \in [1..n -> TargetUrls] :
       \E k \in 1..MaxScrapeConcurrency : \E files \in ShardsBefore :
         snap = NewSnap(targets, k, files)

NextSnap ==
  \/ \E i \in 1..Len(snap.tasks) : ScrapeTargetStart(i)
  \/ \E i \in 1..Len(snap.tasks) : ScrapeTargetFail(i)
  \/ \E i \in 1..Len(snap.tasks) : ScrapeTargetDone(i)
  \/ BuildReturn

SpecSnap == InitSnap /\ [][NextSnap]_vars

\* ------------------------------------------------------------- claims
Last(q) == q[Len(q)]

StatusRank(st) == IF st = "queued" THEN 0 ELSE IF st = "started" THEN 1 ELSE 2

StartedEvents(j) == {i \in 1..Len(events[j]) : events[j][i].type = "started"}

\* C1: in every step, no job's status moves backwards in queued, started,
\* (completed | failed), and a completed or failed status never changes.
C1_StatusMonotonic ==
  [][\A j \in 1..Len(jobs) :
       /\ StatusRank(jobs'[j].status) >= StatusRank(jobs[j].status)
       /\ jobs[j].status \in Terminal => jobs'[j].status = jobs[j].status]_vars

\* C2: the crawl is run at most once per job id: no job has been marked
\* started, and its started event published, more than once.
C2_CrawlOncePerJob ==
  \A j \in 1..Len(jobs) : Cardinality(StartedEvents(j)) <= 1

\* C3: a submit for a target returns the id of every job that is queued or
\* started for that target, adds no job row and stores no event.
C3_SubmitReturnsActiveJob ==
  [][\A raw \in SubmitUrls :
       Submit(raw) =>
         \A j \in 1..Len(jobs) :
           (jobs[j].url = normalize_hackathon_url(raw) /\ jobs[j].status \in Active)
             => (resp'.id = j /\ jobs' = jobs /\ events' = events)]_vars

\* The completed jobs of a target that have a result and finished within
\* the freshness window.
FreshCompleted(url) ==
  {j \in 1..Len(jobs) : /\ jobs[j].url = url
                        /\ jobs[j].status = "completed"
                        /\ j \in results
                        /\ jobs[j].finished_at + ttl >= clock}

\* C4: a submit for a valid target with no active job returns a most recently
\* finished fresh completed job, unchanged store and queue, when the window
\* is positive and such a job exists; otherwise it creates a new queued job.
C4_FreshCompletedReused ==
  [][\A raw \in SubmitUrls :
       LET url == Normalized[raw] IN
       (/\ Submit(raw)
        /\ url # Invalid
        /\ \A j \in 1..Len(jobs) : jobs[j].url = url => jobs[j].status \notin Active)
       => IF ttl > 0 /\ FreshCompleted(url) # {}
          THEN /\ resp'.id \in FreshCompleted(url)
               /\ \A k \in FreshCompleted(url) : jobs[resp'.id].finished_at >= jobs[k].finished_at
               /\ resp'.status = "completed"
               /\ jobs' = jobs /\ events' = events /\ queue' = queue /\ results' = results
          ELSE /\ Len(jobs') = Len(jobs) + 1
               /\ Last(jobs').status = "queued"
               /\ Last(jobs').url = url
               /\ resp' = [code |-> 200, id |-> Len(jobs'), status |-> "queued"]
               /\ Last(queue') = Len(jobs')]_vars

\* A fresh completed job was reused although an older completed job of the
\* same target exists.
C4_Witness ==
  /\ resp.status = "completed"
  /\ ttl > 0
  /\ \E j \in 1..Len(jobs) : /\ j # resp.id
                             /\ jobs[j].url = jobs[resp.id].url
                             /\ jobs[j].status = "completed"
                             /\ jobs[j].finished_at < jobs[resp.id].finished_at

\* C5: the first stored event of a job is queued and no event is stored
\* after its completed or failed event.
C5_TerminalEventIsLast ==
  \A j \in 1..Len(jobs) :
    /\ events[j] # <<>> => events[j][1].type = "queued"
    /\ \A i \in 1..Len(events[j]) : events[j][i].type \in Terminal => i = Len(events[j])

\* C6: every connection receives the events of its job in the order of
\* their ids in the store.
C6_ReceivedInStoredOrder ==
  \A w \in Sockets :
    \A i, k \in 1..Len(sock[w].received) :
      i < k => sock[w].received[i] <= sock[w].received[k]

\* C7: the worker takes the next job id only when the job it took before
\* (if any) has a terminal status and a terminal last event; so no crawl is
\* running when the next one starts.
C7_OneCrawlAtATime ==
  [][WorkerTake =>
       /\ worker.pc = "idle"
       /\ worker.job # 0 =>
            /\ jobs[worker.job].status \in Terminal
            /\ Last(events[worker.job]).type \in Terminal]_vars

\* The worker crawls one job, after finishing another, while a third id waits.
C7_Witness ==
  /\ worker.pc = "crawl"
  /\ queue # <<>>
  /\ \E j \in 1..Len(jobs) : j # worker.job /\ jobs[j].status \in Terminal

\* C8: between start and stop the worker never ends: however a crawl ended,
\* the worker is back at queue.get() (or finishing the terminal broadcast).
C8_WorkerNeverDies ==
  /\ worker.pc # "dead"
  /\ worker.outcome # "none" => worker.pc \in {"idle", "end_bc"}

\* After a crawl that raised an uncatalogued exception, the worker has
\* taken the next job.
C8_Witness ==
  /\ worker.pc = "crawl"
  /\ \E j \in 1..Len(jobs) :
       /\ j # worker.job
       /\ jobs[j].status = "failed"
       /\ jobs[j].error_code = "parse_error"

\* The code the claim gives for each way a crawl can fail.
ClaimedCode(o) ==
  IF o = "deadline" THEN "timeout_error"
  ELSE IF o = "exception" THEN "parse_error"
  ELSE o

\* C9: after a crawl failed with outcome o, the job is failed with the code
\* of o, and its last stored event is a failed event with that code.
C9_FailureRecorded ==
  (worker.outcome \notin {"none", "result"}) =>
    /\ jobs[worker.job].status = "failed"
    /\ jobs[worker.job].error_code = ClaimedCode(worker.outcome)
    /\ jobs[worker.job].finished_at # NullTime
    /\ Last(events[worker.job]) = Event("failed", ClaimedCode(worker.outcome))

\* The whole-crawl deadline expired and the job is failed with timeout_error.
C9_Witness ==
  /\ worker.outcome = "deadline"
  /\ jobs[worker.job].error_code = "timeout_error"

\* C10: started_at is null while a job is queued, finished_at is non-null
\* only in completed or failed, error is non-null only in failed.
C10_TimestampsFollowStatus ==
  \A j \in 1..Len(jobs) :
    /\ jobs[j].status = "queued" => jobs[j].started_at = NullTime
    /\ jobs[j].finished_at # NullTime => jobs[j].status \in Terminal
    /\ jobs[j].error_code # NullCode => jobs[j].status = "failed"

\* ------------------------------------------------------------- claims on the crawl
Range(q) == {q[i] : i \in 1..Len(q)}

ProgressOf(type) == {i \in 1..Len(crawl.progress) : crawl.progress[i].type = type}

TaskIds == 1..Len(crawl.tasks)

Ended == crawl.pc \in {"returned", "raised"}

\* C11: no two deep-fetch tasks of a crawl have the same project_url, and
\* the crawl counts one scheduled candidate per task.
C11_NoUrlScheduledTwice ==
  /\ \A i, k \in TaskIds : i # k => crawl.tasks[i].url # crawl.tasks[k].url
  /\ crawl.total_candidates_scheduled = Len(crawl.tasks)
  /\ crawl.scheduled_project_urls = {crawl.tasks[i].url : i \in TaskIds}

\* A url that two gallery pages listed with a badge has its one task.
C11_Witness ==
  \E a, b \in ProgressOf("winner_project_found") :
    /\ a # b
    /\ crawl.progress[a].arg = crawl.progress[b].arg
    /\ crawl.progress[a].arg \in crawl.badge_urls
    /\ \E i \in TaskIds : crawl.tasks[i].url = crawl.progress[a].arg

\* The tasks that are inside "async with fetch_semaphore".
InFlight == {i \in TaskIds : crawl.tasks[i].holds}

\* C12: the tasks that began their fetch and have not finished are at most
\* project_fetch_concurrency, and every permit not held by such a task is
\* back in the semaphore, however the others finished.
C12_FetchesWithinLimit ==
  /\ Cardinality(InFlight) <= crawl.project_fetch_concurrency
  /\ crawl.fetch_semaphore = crawl.project_fetch_concurrency - Cardinality(InFlight)
  /\ \A i \in TaskIds : crawl.tasks[i].state = "fetching" => i \in InFlight

\* The gallery loop fetches its next page while a task fetches on the last
\* permit and a task that failed has given its permit back.
C12_Witness ==
  /\ crawl.pc = "page"
  /\ crawl.scanned_pages >= 1
  /\ crawl.fetch_semaphore = 0
  /\ \E i, k \in TaskIds :
       /\ crawl.tasks[i].state = "fetching"
       /\ crawl.tasks[k].state = "done"
       /\ crawl.tasks[k].result \in TaskFailures

\* C13: once a gallery page has yielded a badge-tagged entry, the crawl has
\* emitted no winner_detection_fallback and has no task that requires prize
\* confirmation.
C13_FallbackExcludedByBadge ==
  crawl.badge_urls # {} =>
    /\ ProgressOf("winner_detection_fallback") = {}
    /\ \A i \in TaskIds : ~crawl.tasks[i].requires_prize_confirmation

\* A crawl of an announced hackathon returned with a badge-tagged entry and
\* an entry without a badge.
C13_Witness ==
  /\ crawl.pc = "returned"
  /\ crawl.should_run_deep_fallback
  /\ crawl.badge_urls # {}
  /\ Range(crawl.all_candidates) \ crawl.badge_urls # {}

\* C14: with no badge-tagged entry and winners announced, the crawl emits
\* winner_detection_fallback at most once; when it returns it has emitted it
\* once with the number of distinct candidate urls, has one finished
\* confirming task per distinct candidate, and its winners are exactly the
\* candidates whose page carried a prize; it fails only by a failure that
\* occurred.
C14_FallbackKeepsConfirmed ==
  (crawl.pc # "landing" /\ crawl.badge_urls = {} /\ crawl.should_run_deep_fallback) =>
    /\ Cardinality(ProgressOf("winner_detection_fallback")) <= 1
    /\ crawl.pc = "raised" => crawl.raised \in crawl.trouble
    /\ crawl.pc = "returned" =>
         /\ Cardinality(ProgressOf("winner_detection_fallback")) = 1
         /\ \A e \in ProgressOf("winner_detection_fallback") :
              crawl.progress[e].arg = Cardinality(Range(crawl.all_candidates))
         /\ Len(crawl.tasks) = Cardinality(Range(crawl.all_candidates))
         /\ {crawl.tasks[i].url : i \in TaskIds} = Range(crawl.all_candidates)
         /\ \A i \in TaskIds : /\ crawl.tasks[i].requires_prize_confirmation
                               /\ crawl.tasks[i].state = "done"
         /\ Len(crawl.winners) = Cardinality({i \in TaskIds : crawl.tasks[i].page = "prize"})
         /\ {w.url : w \in Range(crawl.winners)} =
              {crawl.tasks[i].url : i \in {k \in TaskIds : crawl.tasks[k].page = "prize"}}

\* The fallback crawl returned one winner of two candidates, one of them
\* listed on two pages.
C14_Witness ==
  /\ crawl.pc = "returned"
  /\ ProgressOf("winner_detection_fallback") # {}
  /\ Len(crawl.all_candidates) > Len(crawl.tasks)
  /\ Len(crawl.tasks) = 2
  /\ Len(crawl.winners) = 1

\* C15: with no badge-tagged entry and winners not announced the crawl has
\* no task and no fallback, found or scraped event; it waits for nothing;
\* it ends only by a failed fetch or the deadline, before the announcement
\* event, or by returning no winner right after winners_not_announced.
C15_NotAnnouncedReturnsEmpty ==
  (crawl.pc # "landing" /\ crawl.badge_urls = {} /\ ~crawl.should_run_deep_fallback
     /\ crawl.visited_pages # {}) =>
    /\ crawl.tasks = <<>>
    /\ ProgressOf("winner_detection_fallback") = {}
    /\ ProgressOf("winner_project_found") = {}
    /\ ProgressOf("winner_project_scraped") = {}
    /\ crawl.pc \in {"page", "returned", "raised"}
    /\ crawl.pc = "raised" =>
         /\ crawl.raised \in GalleryFailures \cup {"cancelled"}
         /\ ProgressOf("winners_not_announced") = {}
    /\ crawl.pc = "returned" =>
         /\ Cardinality(ProgressOf("winners_not_announced")) = 1
         /\ crawl.progress[Len(crawl.progress)].type = "winners_not_announced"
         /\ crawl.winners = <<>>

\* A crawl of a hackathon without announced winners returned after two
\* pages with candidates.
C15_Witness ==
  /\ crawl.pc = "returned"
  /\ ~crawl.should_run_deep_fallback
  /\ crawl.scanned_pages = 2
  /\ crawl.all_candidates # <<>>
  /\ ProgressOf("winners_not_announced") # {}

\* C16: a returned crawl with badge-tagged entries has one finished task,
\* without prize confirmation, per distinct badge-tagged url, one winner and
\* one winner_project_scraped event per such url, the winner's prizes being
\* its page's or the synthesized Winner; every winner of a returned crawl
\* has a prize.
C16_BadgeWinnersAllKept ==
  crawl.pc = "returned" =>
    /\ \A w \in Range(crawl.winners) : w.prizes \in {"own", "Winner"}
    /\ crawl.badge_urls # {} =>
         /\ Len(crawl.tasks) = Cardinality(crawl.badge_urls)
         /\ {crawl.tasks[i].url : i \in TaskIds} = crawl.badge_urls
         /\ \A i \in TaskIds :
              /\ ~crawl.tasks[i].requires_prize_confirmation
              /\ crawl.tasks[i].state = "done"
              /\ \E w \in Range(crawl.winners) :
                   /\ w.url = crawl.tasks[i].url
                   /\ w.prizes = IF crawl.tasks[i].page = "prize" THEN "own" ELSE "Winner"
         /\ Len(crawl.winners) = Cardinality(crawl.badge_urls)
         /\ Cardinality(ProgressOf("winner_project_scraped")) = Cardinality(crawl.badge_urls)

\* A crawl returned two badge-tagged winners, one with the synthesized prize.
C16_Witness ==
  /\ crawl.pc = "returned"
  /\ Cardinality(crawl.badge_urls) = 2
  /\ \E w \in Range(crawl.winners) : w.prizes = "Winner"
  /\ \E w \in Range(crawl.winners) : w.prizes = "own"

\* The tasks whose deep fetch failed.
FailedTasks == {i \in TaskIds : crawl.tasks[i].result \in TaskFailures}

\* What _process_lookup sees of an ended crawl.
CrawlOutcome == IF crawl.raised = "cancelled" THEN "deadline" ELSE crawl.raised

\* C17 as stated: a crawl that ended, other than by the deadline, with a
\* failed deep fetch has failed with that fetch's code; a returned crawl
\* holds every kept project.
C17_FailsWithTheFetchCode ==
  (Ended /\ crawl.raised # "cancelled") =>
    /\ \A i \in FailedTasks : crawl.pc = "raised" /\ crawl.raised = crawl.tasks[i].result
    /\ crawl.pc = "returned" =>
         {w.url : w \in Range(crawl.winners)} =
           {crawl.tasks[i].url : i \in {k \in TaskIds : crawl.tasks[k].result = "project"}}

\* C17 amended: an ended crawl with a failed deep fetch has failed and not
\* returned; a failed crawl's code is the code of a failure that occurred
\* in it (a failed deep fetch, a failed page fetch, the deadline), which is
\* the code the job persists; a returned crawl had no failure, left no task
\* pending and holds every project its tasks kept.
C17_NoPartialResult ==
  Ended =>
    /\ FailedTasks # {} => crawl.pc = "raised"
    /\ crawl.pc = "raised" =>
         /\ crawl.raised \in crawl.trouble
         /\ FailureCode(CrawlOutcome) \in
              {IF f = "cancelled" THEN "timeout_error" ELSE f : f \in crawl.trouble}
    /\ crawl.pc = "returned" =>
         /\ crawl.trouble = {}
         /\ crawl.pending_scrape_tasks = {}
         /\ \A i \in TaskIds : crawl.tasks[i].state = "done"
         /\ Len(crawl.winners) = Cardinality({k \in TaskIds : crawl.tasks[k].result = "project"})
         /\ {w.url : w \in Range(crawl.winners)} =
              {crawl.tasks[i].url : i \in {k \in TaskIds : crawl.tasks[k].result = "project"}}

\* A crawl that had already kept a winner failed with the code of a deep
\* fetch that was blocked.
C17_Witness ==
  /\ crawl.pc = "raised"
  /\ crawl.raised = "blocked_error"
  /\ crawl.winners # <<>>
  /\ \E i \in FailedTasks : crawl.tasks[i].result = "blocked_error"

\* C18: once the crawl has ended (returned or raised to its caller) every
\* task it created is done or cancelled, and nothing of the crawl changes
\* any more: no fetch starts or ends and no event is emitted.
C18_NoTaskOutlivesCrawl ==
  [][Ended =>
       /\ \A i \in TaskIds : crawl.tasks[i].state \in {"done", "cancelled"}
       /\ crawl' = crawl]_vars

\* The deadline cancelled a crawl with two unfinished tasks; both were
\* cancelled and had ended before the crawl raised to its caller.
C18_Witness ==
  /\ crawl.pc = "raised"
  /\ crawl.raised = "cancelled"
  /\ Cardinality({i \in TaskIds : crawl.tasks[i].state = "cancelled"}) = 2

\* C19: a crawl that ended, other than by the deadline, after it tried the
\* gallery and scanned no page has failed with parse_error.
C19_NoPageScannedIsParseFailure ==
  (Ended /\ crawl.visited_pages # {} /\ crawl.scanned_pages = 0 /\ crawl.raised # "cancelled") =>
    (crawl.pc = "raised" /\ crawl.raised = "parse_error")

\* The place of task i in the order of completion.
CompletedAt(i) == CHOOSE n \in 1..Len(crawl.completed) : crawl.completed[n] = i

\* The task that fetched url u.
TaskOf(u) == CHOOSE i \in TaskIds : crawl.tasks[i].url = u

\* C20: the winners list is in the order in which the winners' tasks
\* completed.
C20_WinnersInCompletionOrder ==
  \A a, b \in 1..Len(crawl.winners) :
    a < b => CompletedAt(TaskOf(crawl.winners[a].url)) < CompletedAt(TaskOf(crawl.winners[b].url))

\* ------------------------------------------------------------- claims: fetch
Denied(reply) == reply.kind = "response" /\ reply.status \in {403, 429}

ServerError(reply) == reply.kind = "response" /\ reply.status >= 500 /\ reply.status < 600

ClientError(reply) ==
  reply.kind = "response" /\ reply.status >= 400 /\ ~Denied(reply) /\ ~ServerError(reply)

Transient(reply) == ServerError(reply) \/ reply.kind \in {"TimeoutException", "RequestError"}

Success(reply) == reply.kind = "response" /\ reply.status < 400

Fetching == fetch.pc # "idle"

\* C21: a reply with status 403 or 429 is the last request of its fetch: the
\* fetch has failed with blocked_error, and the only sleeps made are those
\* between the earlier attempts, whatever the attempt budget and the
\* earlier replies.
C21_DeniedFailsAtOnce ==
  Fetching =>
    \A k \in 1..Len(fetch.replies) :
      Denied(fetch.replies[k]) =>
        /\ k = Len(fetch.replies)
        /\ fetch.pc = "done"
        /\ fetch.outcome = "blocked_error"
        /\ fetch.error_attempt = k
        /\ Len(fetch.sleeps) = k - 1

\* A fetch with three attempts was denied at its second, after a failed first.
C21_Witness ==
  /\ Fetching
  /\ fetch.retry_count = 3
  /\ Len(fetch.replies) = 2
  /\ Transient(fetch.replies[1])
  /\ Denied(fetch.replies[2])
  /\ fetch.outcome = "blocked_error"

\* C22: a reply with a status >= 400 other than 403, 429 and 5xx is the last
\* request of its fetch: the fetch has failed with network_error at that
\* attempt, with no sleep and no further request after it.
C22_ClientErrorNotRetried ==
  Fetching =>
    \A k \in 1..Len(fetch.replies) :
      ClientError(fetch.replies[k]) =>
        /\ k = Len(fetch.replies)
        /\ fetch.pc = "done"
        /\ fetch.outcome = "network_error"
        /\ Len(fetch.sleeps) = k - 1

\* C23: in a fetch whose replies so far are transient failures or a success,
\* the k-th sleep lasts backoff_base * 2^(k-1) and follows the k-th failed
\* attempt, for k < max_retries only; the fetch that failed has issued
\* exactly max_retries requests; a success is the last request of its fetch.
C23_AttemptsAndBackoff ==
  (Fetching /\ \A k \in 1..Len(fetch.replies) :
                 Transient(fetch.replies[k]) \/ Success(fetch.replies[k])) =>
    /\ \A k \in 1..Len(fetch.sleeps) :
         /\ fetch.sleeps[k] = fetch.backoff_base_seconds * 2 ^ (k - 1)
         /\ k < fetch.retry_count
         /\ Transient(fetch.replies[k])
    /\ Len(fetch.replies) <= fetch.retry_count
    /\ fetch.pc = "sleep" => Len(fetch.sleeps) = Len(fetch.replies)
    /\ fetch.pc = "get" => /\ Len(fetch.sleeps) = Len(fetch.replies)
                           /\ fetch.attempt = Len(fetch.replies) + 1
    /\ (fetch.pc = "done" /\ fetch.outcome \notin {"text", "payload"}
          /\ fetch.replies # <<>> /\ Transient(Last(fetch.replies))) =>
         /\ Len(fetch.replies) = fetch.retry_count
         /\ Len(fetch.sleeps) = fetch.retry_count - 1
    /\ \A k \in 1..Len(fetch.replies) :
         Success(fetch.replies[k]) =>
           /\ k = Len(fetch.replies)
           /\ Len(fetch.sleeps) = k - 1
           /\ fetch.pc \in {"response", "done"}

\* Three attempts failed transiently with base 2: sleeps of 2 and 4 seconds,
\* none after the third.
C23_Witness ==
  /\ Fetching
  /\ fetch.pc = "done"
  /\ fetch.retry_count = 3
  /\ fetch.backoff_base_seconds = 2
  /\ Len(fetch.replies) = 3
  /\ \A k \in 1..3 : Transient(fetch.replies[k])
  /\ fetch.sleeps = <<2, 4>>

\* C24: a fetch that has used its whole budget on failed attempts has failed
\* with timeout_error when its last attempt timed out and with the
\* network_error of its last attempt otherwise; a fetch that returned a body
\* had a successful last attempt.
C24_ExhaustedBudgetFailure ==
  (Fetching /\ fetch.pc = "done") =>
    /\ (Len(fetch.replies) = fetch.retry_count /\ Handler(Raised(Last(fetch.replies))) = "retry") =>
         /\ fetch.outcome = IF Last(fetch.replies).kind = "TimeoutException"
                            THEN "timeout_error" ELSE "network_error"
         /\ fetch.error_attempt = fetch.retry_count
    /\ fetch.outcome \in {"text", "payload"} => Success(Last(fetch.replies))

\* The budget ran out on a server error after an attempt that timed out.
C24_Witness ==
  /\ Fetching
  /\ fetch.pc = "done"
  /\ fetch.retry_count = 2
  /\ Len(fetch.replies) = 2
  /\ fetch.replies[1].kind = "TimeoutException"
  /\ ServerError(fetch.replies[2])
  /\ fetch.outcome = "network_error"

\* C25: fetch_json fails with parse_error when the body does not decode or
\* decodes to something other than a keyed object, and returns the payload
\* only when it is one.
C25_BadPayloadIsParseFailure ==
  (Fetching /\ fetch.variant = "json" /\ fetch.pc = "done" /\ fetch.payload # "none") =>
    IF fetch.payload = "dict"
    THEN fetch.outcome = "payload"
    ELSE fetch.outcome = "parse_error"

\* ------------------------------------------------------------- claims: delivery
IsPrefix(a, b) == Len(a) <= Len(b) /\ \A i \in 1..Len(a) : a[i] = b[i]

\* The connections a send_json raises on.
Closed == {"broken", "aborted", "gone"}

\* The broadcast of publisher p returns in this step.
BroadcastReturns(p) == bc[p] # NoBroadcast /\ bc'[p] = NoBroadcast /\ BroadcastNext(p)

\* C26: the event a broadcast delivers is already a row of the store when
\* the first delivery is attempted, no step removes a stored event, and a
\* broadcast whose every delivery failed returns to its publisher, which
\* goes on as after a delivered one.
C26_StoredBeforeDelivery ==
  [][/\ \A j \in 1..Len(jobs) : IsPrefix(events[j], events'[j])
     /\ \A p \in Publishers :
          bc'[p] # NoBroadcast => bc'[p].ev <= Len(events'[bc'[p].job])
     /\ \A w \in Sockets :
          sock'[w].job # 0 =>
            \A i \in 1..Len(sock'[w].received) :
              sock'[w].received[i] <= Len(events'[sock'[w].job])
     /\ \A p \in Publishers :
          (BroadcastReturns(p) /\ bc[p].stale = Range(bc[p].sockets)) =>
            /\ Len(events'[bc[p].job]) >= bc[p].ev
            /\ worker'.pc = IF p = "main" /\ worker.pc = "started_bc" THEN "crawl"
                            ELSE IF p = "main" /\ worker.pc = "end_bc" THEN "idle"
                            ELSE worker.pc]_vars

\* A broadcast to two subscribers has failed on both; its event is stored.
C26_Witness ==
  \E p \in Publishers :
    /\ bc[p] # NoBroadcast
    /\ bc[p].todo = <<>>
    /\ Len(bc[p].sockets) = 2
    /\ bc[p].stale = Range(bc[p].sockets)
    /\ bc[p].ev <= Len(events[bc[p].job])
    /\ \A w \in Sockets : bc[p].ev \notin Range(sock[w].received)

Accepted == norm.pc \in {"accepted", "again"}

\* The raw spellings that differ from x by a missing scheme (x without its
\* "https://"), surrounding whitespace, a trailing slash, a query string or
\* a fragment.
Spellings(x) ==
  {<<" ">> \o x \o <<" ">>, x \o <<"/">>, x \o <<"?q">>, x \o <<"#f">>}
    \cup (IF x # <<>> /\ Head(x) = "https://" THEN {Tail(x)} ELSE {})

\* C28: every spelling of an accepted raw URL that differs from it by a
\* missing scheme, surrounding whitespace, a trailing slash, a query or a
\* fragment normalizes to the same string, and normalizing the returned
\* string again returns it unchanged.
C28_OneCanonicalString ==
  /\ Accepted => \A v \in Spellings(norm.raw) : normalize_hackathon_url(v) = norm.out
  /\ norm.pc = "again" => norm.again = norm.out

\* The host of a URL is devpost.com or a subdomain of it.
InDevpostDomain(netloc) ==
  \/ lower(netloc) = <<"devpost.com">>
  \/ /\ Len(netloc) = 2
     /\ lower(netloc)[1] \in {"a", "b"}
     /\ netloc[2] = ".devpost.com"

\* The raw URLs that differ from x in the scheme or in the letter-case of
\* the host.
SameButSchemeOrCase(x) ==
  {[i \in 1..Len(x) |-> IF x[i] = "https://" THEN "http://"
                        ELSE IF x[i] = "http://" THEN "https://" ELSE x[i]],
   [i \in 1..Len(x) |-> IF x[i] = "a" THEN "A" ELSE IF x[i] = "A" THEN "a" ELSE x[i]]}

\* C29: a returned string has the scheme https and a host that is
\* devpost.com or a subdomain of it; a raw URL that is empty or whose host
\* is outside that domain is rejected; raw URLs that differ only in scheme
\* or host letter-case return the same string.
C29_CrawlTargetInvariant ==
  /\ Accepted =>
       /\ Head(norm.out) = "https://"
       /\ InDevpostDomain(urlparse(norm.out).netloc)
       /\ \A v \in SameButSchemeOrCase(norm.raw) : normalize_hackathon_url(v) = norm.out
  /\ (norm.pc \notin {"idle", "raw"} /\ strip(norm.raw) = <<>>) => norm.pc = "rejected"

\* ------------------------------------------------------------- claims: snapshot
Building == snap.pc # "idle"

TasksIn(st) == {i \in 1..Len(snap.tasks) : snap.tasks[i] = st}

\* C30: at most scrape_concurrency crawls run at once; the shard of every
\* entry exists from the moment it is written; and when the build returns,
\* every target has ended as an entry or as a failed target, the counts add
\* up to the number of targets, the manifest lists the entries of the
\* targets that succeeded in the order of the input, and the shard file of
\* every manifest entry exists.
C30_BuildKeepsSuccesses ==
  Building =>
    /\ Cardinality(TasksIn("crawling")) <= snap.scrape_concurrency
    /\ \A k \in 1..Len(snap.entries) : snap.entries[k].shard_path.digest \in snap.shards
    /\ snap.pc = "returned" =>
         /\ TasksIn("done") \cup TasksIn("failed") = 1..Len(snap.targets)
         /\ snap.success_count + snap.failure_count = Len(snap.targets)
         /\ snap.success_count = Len(snap.manifest)
         /\ snap.failure_count = Len(snap.failures)
         /\ {snap.entries[k].index + 1 : k \in 1..Len(snap.entries)} = TasksIn("done")
         /\ Len(snap.entries) = Cardinality(TasksIn("done"))
         /\ Len(snap.failures) = Cardinality(TasksIn("failed"))
         /\ \A i \in TasksIn("failed") :
              Cardinality({k \in 1..Len(snap.failures) :
                             snap.failures[k].hackathon_url = snap.targets[i]})
                = Cardinality({n \in TasksIn("failed") : snap.targets[n] = snap.targets[i]})
         /\ \A k \in 1..Len(snap.manifest) :
              /\ snap.manifest[k].hackathon_url = snap.targets[snap.entries[k].index + 1]
              /\ snap.manifest[k].shard_path.digest \in snap.shards
              /\ \A n \in 1..Len(snap.manifest) :
                   k < n => snap.entries[k].index < snap.entries[n].index

\* A build of three targets returned with the second failed, the other two
\* in the manifest, and a stale shard pruned.
C30_Witness ==
  /\ snap.pc = "returned"
  /\ snap.tasks = <<"done", "failed", "done">>
  /\ snap.targets[1] # snap.targets[3]
  /\ Len(snap.manifest) = 2
  /\ snap.pruned_shard_count >= 1

\* ------------------------------------------------------------- claims: restarts
\* This step answers a POST /lookups for the normalized target url.
SubmitFor(url) ==
  /\ nsub' = nsub + 1
  /\ resp'.code = 200
  /\ jobs'[resp'.id].url = url

\* Job j is queued in the store and its id is not on the in-memory queue.
LostFromQueue(j) == jobs[j].status = "queued" /\ j \notin Range(queue)

\* C31: a submit for the target of a job that is queued in the store and
\* absent from the in-memory queue puts that job's id on the queue; a submit
\* answered with an active job in status started leaves the queue as it was.
C31_LostQueuedJobRequeued ==
  [][/\ \A j \in 1..Len(jobs) :
          (LostFromQueue(j) /\ SubmitFor(jobs[j].url)) => j \in Range(queue')
     /\ \A j \in 1..Len(jobs) :
          (nsub' = nsub + 1 /\ resp'.id = j /\ jobs[j].status = "started") => queue' = queue]_vars

\* ------------------------------------------------------------- claims: gallery walk
\* This step is the return of a gallery page's fetch with a page.
PageScanned == crawl.pc = "page" /\ crawl'.scanned_pages = crawl.scanned_pages + 1

\* C32: a gallery page being fetched is one not fetched before in the crawl;
\* every page fetched adds one URL to the visited ones, so the walk ends
\* within as many fetches as there are page URLs; the walk goes on after a
\* page exactly when the page names a next page that was not visited; and
\* a crawl that returns has scanned as many pages as distinct URLs fetched.
C32_GalleryWalkTerminates ==
  [][/\ crawl'.pc = "page" =>
          /\ crawl'.page_url \in Pages \ crawl'.visited_pages
          /\ crawl'.scanned_pages = Cardinality(crawl'.visited_pages)
          /\ crawl'.scanned_pages < MaxPages
     /\ PageScanned =>
          /\ crawl'.visited_pages = crawl.visited_pages \cup {crawl.page_url}
          /\ Cardinality(crawl'.visited_pages) = Cardinality(crawl.visited_pages) + 1
          /\ crawl'.raised = "none" =>
               (crawl'.pc = "page" <=>
                  (crawl'.page_url # 0 /\ crawl'.page_url \notin crawl'.visited_pages))
     /\ crawl'.pc = "returned" =>
          /\ crawl'.scanned_pages = Cardinality(crawl'.visited_pages)
          /\ crawl'.scanned_pages <= MaxPages
          /\ crawl'.page_url = 0 \/ crawl'.page_url \in crawl'.visited_pages]_vars

\* A crawl returned after two pages, the second linking back to the first.
C32_Witness ==
  /\ crawl.pc = "returned"
  /\ crawl.scanned_pages = 2
  /\ crawl.visited_pages = {1, 2}
  /\ crawl.page_url = 1

\* ------------------------------------------------------------- claims: progress numbers
\* The winner_project_scraped events of the crawl, in emission order.
Scraped == SelectSeq(crawl.progress, LAMBDA e : e.type = "winner_project_scraped")

\* C33: the k-th winner_project_scraped event of a crawl has index k and a
\* total that is at least its index, at least the total of the event before
\* it and at most the number of deep fetches scheduled by the end; and the
\* winner_count of a returned result is the index of the last such event,
\* 0 when there is none.
C33_IndexAndTotal ==
  /\ crawl.pc # "idle" =>
       \A k \in 1..Len(Scraped) :
         /\ Scraped[k].index = k
         /\ Scraped[k].total >= Scraped[k].index
         /\ Scraped[k].total <= crawl.total_candidates_scheduled
         /\ k > 1 => Scraped[k].total >= Scraped[k - 1].total
  /\ crawl.pc = "returned" =>
       ScrapeResult(crawl).hackathon.winner_count =
         IF Scraped = <<>> THEN 0 ELSE Scraped[Len(Scraped)].index

\* A returned crawl whose second winner was scraped when more deep fetches
\* had been scheduled than when its first was.
C33_Witness ==
  /\ crawl.pc = "returned"
  /\ Len(Scraped) = 2
  /\ Scraped[1].total = 1
  /\ Scraped[2].total = 2
  /\ ScrapeResult(crawl).hackathon.winner_count = 2

\* ------------------------------------------------------------- claims: lifecycle
\* The in-memory state of the orchestrator and the tables of the store.
OrchestratorState == <<queue, worker, bc, subscribers, jobs, results, events>>

\* C34: a stopped orchestrator has no worker, no queue content, no
\* subscriber and no broadcast in progress, whatever is called on it; the
\* step that starts it leaves one idle worker on an empty queue with no
\* subscriber; a start on a started orchestrator changes nothing; and an
\* enqueue or a subscribe on a stopped one raises and changes nothing.
C34_CleanRestart ==
  [][/\ worker'.pc = "none" =>
          /\ worker' = NoWorker
          /\ queue' = <<>>
          /\ subscribers' = {}
          /\ bc' = [p \in Publishers |-> NoBroadcast]
     /\ (worker.pc = "none" /\ worker'.pc # "none") =>
          /\ worker' = IdleWorker
          /\ queue' = <<>>
          /\ subscribers' = {}
     /\ StartStarted => UNCHANGED OrchestratorState
     /\ (EnqueueStopped \/ SubscribeStopped) =>
          /\ resp' = NotStarted
          /\ UNCHANGED OrchestratorState
     /\ resp'.status = "RuntimeError" => (worker.pc = "none" /\ UNCHANGED OrchestratorState)]_vars

\* The orchestrator was stopped in the middle of a crawl, with a connection
\* subscribed, and started again: the job is still started in the store,
\* the connection still open, the worker idle, the queue and the
\* subscriber map empty.
C34_Witness ==
  /\ worker = IdleWorker
  /\ queue = <<>>
  /\ subscribers = {}
  /\ \E j \in 1..Len(jobs) : jobs[j].status = "started"
  /\ \E w \in Sockets : sock[w].state = "live"

\* ------------------------------------------------------------- claims: store invariants
\* The jobs of target url that are queued or started.
ActiveJobs(url) == {j \in 1..Len(jobs) : jobs[j].url = url /\ jobs[j].status \in Active}

\* C35: in every state, every normalized target has at most one job that is
\* queued or started.
C35_OneActiveJobPerTarget ==
  \A j \in 1..Len(jobs) : Cardinality(ActiveJobs(jobs[j].url)) <= 1

\* C36: in every state between two steps, which is what get_lookup reads, a
\* job has a row in lookup_results exactly when its status is completed.
C36_ResultIffCompleted ==
  \A j \in 1..Len(jobs) : j \in results <=> jobs[j].status = "completed"

\* ------------------------------------------------------------- claims: liveness
OnQueue(j) == j \in Range(queue)

Stopped == worker.pc = "none"

Finished(j) == j <= Len(jobs) /\ jobs[j].status \in Terminal

\* C37: while the orchestrator is running, a job id on the queue is
\* eventually the one the worker processes and its job eventually reaches
\* completed or failed; ids enter the queue at its end, and the id the
\* worker takes is the one at the head.
C37_QueuedJobsFinish ==
  /\ \A j \in 1..MaxSubmitsLive : OnQueue(j) ~> ((worker.pc = "crawl" /\ worker.job = j) \/ Stopped)
  /\ \A j \in 1..MaxSubmitsLive : OnQueue(j) ~> (Finished(j) \/ Stopped)
  /\ [][/\ Len(queue') > Len(queue) => SubSeq(queue', 1, Len(queue)) = queue
        /\ (worker'.pc = "crawl" /\ worker.pc = "idle") =>
             (queue # <<>> /\ worker'.job = Head(queue) /\ queue' = Tail(queue))]_vars

\* Job 2 was enqueued behind job 1 and both are finished, job 2 last.
C37_Witness ==
  /\ Len(jobs) >= 2
  /\ Finished(1)
  /\ Finished(2)
  /\ worker.job = 2
  /\ worker.pc = "idle"
  /\ \A j \in 1..2 : Cardinality(StartedEvents(j)) = 1

\* Job j is started in the store and no worker is processing it: the
\* orchestrator was stopped during its crawl.
Abandoned(j) ==
  /\ j <= Len(jobs)
  /\ jobs[j].status = "started"
  /\ ~(worker.job = j /\ worker.pc \in {"started_bc", "crawl"})

\* C38: once the orchestrator runs again and a submit for its target has
\* been answered with it, a job left started by a stop eventually reaches
\* completed or failed (unless the orchestrator is stopped again first).
C38_StartedJobRecovered ==
  \A j \in 1..MaxSubmitsLive :
    (Abandoned(j) /\ ~Stopped /\ resp.code = 200 /\ resp.id = j) ~> (Finished(j) \/ Stopped)

\* ------------------------------------------------------------- claims: event order
\* C39: every winner_project_scraped event of a crawl comes after a
\* winner_project_found event for the same project_url, and every
\* winner_project_found or winner_project_scraped event of a crawl that
\* emitted winner_detection_fallback comes after that event.
C39_FoundBeforeScraped ==
  crawl.pc # "idle" =>
    /\ \A i \in ProgressOf("winner_project_scraped") :
         \E k \in ProgressOf("winner_project_found") :
           k < i /\ crawl.progress[k].arg = crawl.progress[i].arg
    /\ \A f \in ProgressOf("winner_detection_fallback") :
         \A i \in ProgressOf("winner_project_found") \cup ProgressOf("winner_project_scraped") :
           f < i

\* A fallback crawl returned with a winner: fallback, found, scraped.
C39_Witness ==
  /\ crawl.pc = "returned"
  /\ ProgressOf("winner_detection_fallback") # {}
  /\ ProgressOf("winner_project_scraped") # {}
  /\ \E i \in ProgressOf("winner_project_scraped") :
       crawl.tasks[TaskOf(crawl.progress[i].arg)].requires_prize_confirmation

\* ------------------------------------------------------------- claims: exactly once
\* The events a broadcast in progress has still to hand to connection w.
Pending(w) ==
  {bc[p].ev : p \in {q \in Publishers : bc[q] # NoBroadcast /\ w \in Range(bc[q].todo)}}

\* C40: for a connection that is open on a job, every stored event of the
\* job is in exactly one place: received, waiting in the replay, or waiting
\* in a broadcast that has the connection ahead; and nothing is received
\* twice.  So once the replay and the broadcasts are done, the connection
\* has received every stored event exactly once.
C40_EveryEventExactlyOnce ==
  \A w \in Sockets :
    sock[w].state \in {"replay", "live"} =>
      LET j == sock[w].job
          got == Range(sock[w].received)
          replay == Range(sock[w].replay)
      IN /\ got \cup replay \cup Pending(w) = 1..Len(events[j])
         /\ got \cap replay = {}
         /\ got \cap Pending(w) = {}
         /\ replay \cap Pending(w) = {}
         /\ Cardinality(got) = Len(sock[w].received)
         /\ Cardinality(replay) = Len(sock[w].replay)

====
